---- MODULE Spec2Model ----
(***************************************************************************)
(* A model of the renter side of the host contract revision protocol       *)
(* (renter/proto/negotiate.go) and of the sector staging pipeline          *)
(* (SectorBuilder / ShardUploader).                                         *)
(*                                                                         *)
(* Several state machines share the module:                                     *)
(*   Spec    one session of revision iterations on a contract: a revision  *)
(*           is built by newDownloadRevision / newUploadRevision, sent      *)
(*           through negotiateRevision one socket operation at a time, and  *)
(*           the caller commits what negotiateRevision returned.            *)
(*   SpecSB  a SectorBuilder driven by Reset / Append / Finish, with the    *)
(*           segment indices each Append hands to the cipher.               *)
(*   SpecStart  the settings re-exchange that opens each iteration          *)
(*           (startRevision, verifySettings).                               *)
(*   SpecHS  the handshake that opens a session (initiateRPC,               *)
(*           verifyRecentRevision) on the stored contract.                  *)
(*   SpecUp  the ShardUploader: EncryptAndUpload on its SectorBuilder and   *)
(*           shard file, next to the builder's own methods.                 *)
(*   SpecMem  a SectorBuilder whose caller keeps a list Slices() returned.  *)
(*   SpecClose  the teardown (terminateRPC, ShardUploader.Close), run more  *)
(*           than once on one session.                                      *)
(*   SpecLookup  SiadClient.LookupHost over a host directory.               *)
(*   SpecShard  SHARDClient.ResolveHostKey and LookupHost on one response.  *)
(*   SpecSign  WalrusClient.SignTransaction on a transaction.               *)
(*   SpecCodec  actionSet.MarshalSia and MarshalSiaSize on an action set.   *)
(***************************************************************************)
EXTENDS Integers, Sequences, FiniteSets, TLC

(***************************************************************************)
(* Program constants.                                                       *)
(***************************************************************************)
SpecifierLen == 16
SectorSize == 4194304
SegmentSize == 64
SegmentsPerSector == 65536

(***************************************************************************)
(* Bounds of the model.                                                     *)
(***************************************************************************)
MaxFunds == 2        \* largest initial renter payout
MaxHostFunds == 1    \* largest initial host payout
MaxCost == 2         \* largest price of one action
MaxCollateral == 1   \* largest collateral of one upload
MaxIter == 2         \* iterations started in one session
MaxOps == 3          \* SectorBuilder methods run on one builder
MaxPrice == 1        \* largest price a host's settings carry
MaxStarts == 2       \* startRevision calls in one session
MaxSessions == 2     \* sessions opened on one contract
MaxUpOps == 2        \* methods run on one ShardUploader's builder
MaxActions == 2      \* actions in one action set
MaxCloses == 4       \* teardown calls on one session
MaxRevNum == 3       \* largest revision number a host presents or a store holds

VARIABLES
    contract,     \* the contract's current (last committed) revision:
                  \* contract.CurrentRevision(), negotiate.go:143
    rev,          \* negotiateRevision's parameter rev, or NoRev between iterations
    args,         \* the inputs rev was built from (newUploadRevision's parameters)
    pc,           \* position of the renter inside negotiateRevision
    wire,         \* reads and writes made on conn in the current iteration, in order
    responseErr,  \* negotiateRevision's local responseErr, negotiate.go:181
    hostSig,      \* negotiateRevision's local hostSig, negotiate.go:185
    result,       \* what negotiateRevision returned: [txn, err]
    signedTxn,    \* negotiateRevision's local signedTxn, negotiate.go:153
    committed,    \* revision numbers committed in this session, in order
    iters,        \* iterations started so far
    sector,       \* SectorBuilder.sector: the buffer, as extents of bytes
    sectorLen,    \* SectorBuilder.sectorLen
    slices,       \* SectorBuilder.slices
    encLog,       \* key.EncryptSegments calls made by Append so far, in order
    lastOp,       \* the SectorBuilder method that ran last
    lastData,     \* the data argument of the last Append call
    sealed,       \* whether Finish has run since the last Reset
    slicesCap,    \* cap(SectorBuilder.slices): the room in its backing array
    held,         \* a slice list a caller got from Slices() and kept
    ops,          \* SectorBuilder methods run so far
    host,         \* the session's cached hostdb.ScannedHost (*host in startRevision)
    hostStart,    \* the cached host when the session was opened
    hostBefore,   \* the cached host when the last startRevision was entered
    recvSettings, \* what crypto.ReadSignedObject delivered to the last verifySettings
    spc,          \* position inside startRevision
    sconn,        \* writes the last startRevision made on conn, in order
    sres,         \* the error the last startRevision returned
    starts,       \* startRevision calls so far
    stored,       \* the contract store: latest revision and signatures
    storedBefore, \* the contract store when the last initiateRPC was entered
    hpc,          \* position inside initiateRPC
    hconn,        \* conn of the last initiateRPC: "none", "open" or "closed"
    closes,       \* conn.Close calls initiateRPC made on that conn
    hlog,         \* reads and writes the last initiateRPC made on conn, in order
    hostRevision, \* verifyRecentRevision's hostRevision and what verified it
    hres,         \* what the last initiateRPC returned: [conn, err]
    syncCalls,    \* arguments of every SyncWithHost call, with its result
    sessions,     \* initiateRPC calls so far
    shard,        \* the shard file: its records, in file order
    shardWrites,  \* chunk indices WriteSlice has written
    upArg,        \* arguments of the last EncryptAndUpload
    upRes,        \* what the last EncryptAndUpload returned: [ss, err]
    tconn,        \* the session's conn: "open" or "closed"
    shardOpen,    \* whether the shard file is open
    tlog,         \* reads, writes and closes the teardown made on conn, in order
    tcalls,       \* every teardown call so far, with what it returned
    siadCall,     \* the last SiadClient.LookupHost call: its inputs and what it returned
    shardCall,    \* the last SHARDClient request: the response and what was returned
    walrusCall,   \* the last WalrusClient.SignTransaction call: txn before and after
    marshalCall   \* the last actionSet.MarshalSia call: the set, the writer, the bytes

sessionVars == <<contract, rev, args, pc, wire, responseErr, hostSig, result,
                 signedTxn, committed, iters>>

sbVars == <<sector, sectorLen, slices, encLog, lastOp, lastData, sealed, slicesCap,
            held, ops>>

startVars == <<host, hostStart, hostBefore, recvSettings, spc, sconn, sres, starts>>

\* the state outside the revision session, and outside the SectorBuilder
hsVars == <<stored, storedBefore, hpc, hconn, closes, hlog, hostRevision, hres,
            syncCalls, sessions>>

upVars == <<shard, shardWrites, upArg, upRes>>

closeVars == <<tconn, shardOpen, tlog, tcalls>>

clientVars == <<siadCall, shardCall, walrusCall>>

extVars == <<startVars, hsVars, upVars, closeVars, clientVars, marshalCall>>

vars == <<sessionVars, sbVars, extVars>>

NoRev == [none |-> TRUE]
NoTxn == [FileContractRevisions |-> <<>>, TransactionSignatures |-> <<>>]
NoArgs == [op |-> "none", cost |-> 0, collateral |-> 0, root |-> "r0"]
NoResult == [txn |-> NoTxn, err |-> "unset"]

Roots == {"r1", "r2"}

(***************************************************************************)
(* types.Currency is an unsigned big integer: Add cannot overflow, and Sub  *)
(* of a larger value from a smaller one is outside its domain (the library  *)
(* raises build.Critical and leaves the minuend).                           *)
(***************************************************************************)
CurrencyAdd(x, y) == x + y

CurrencySub(x, y) == IF x < y THEN x ELSE x - y

Output(v, uh) == [Value |-> v, UnlockHash |-> uh]

SumValues(outs) ==
    LET RECURSIVE Sum(_)
        Sum(i) == IF i = 0 THEN 0 ELSE outs[i].Value + Sum(i - 1)
    IN Sum(Len(outs))

\* newRevision without the credit to the void output.
newRevisionLeak(current, cost) ==
    [current EXCEPT
        !.NewValidProofOutputs =
            [current.NewValidProofOutputs EXCEPT
                ![1].Value = CurrencySub(current.NewValidProofOutputs[1].Value, cost),
                ![2].Value = CurrencyAdd(current.NewValidProofOutputs[2].Value, cost)],
        !.NewMissedProofOutputs =
            [current.NewMissedProofOutputs EXCEPT
                ![1].Value = CurrencySub(current.NewMissedProofOutputs[1].Value, cost)],
        !.NewRevisionNumber = current.NewRevisionNumber + 1]

\* newRevision without the increment of the revision number.
newRevisionSameNumber(current, cost) ==
    [current EXCEPT
        !.NewValidProofOutputs =
            [current.NewValidProofOutputs EXCEPT
                ![1].Value = CurrencySub(current.NewValidProofOutputs[1].Value, cost),
                ![2].Value = CurrencyAdd(current.NewValidProofOutputs[2].Value, cost)],
        !.NewMissedProofOutputs =
            [current.NewMissedProofOutputs EXCEPT
                ![1].Value = CurrencySub(current.NewMissedProofOutputs[1].Value, cost),
                ![3].Value = CurrencyAdd(current.NewMissedProofOutputs[3].Value, cost)]]

(***************************************************************************)
(* newRevision: a copy of current with cost moved from the renter's valid   *)
(* output to the host's, from the renter's missed output to the void, and   *)
(* the revision number incremented.  Go slices are 0-based, sequences       *)
(* 1-based: NewValidProofOutputs[0] is [1] here.                            *)
(***************************************************************************)
newRevision(current, cost) ==
    [current EXCEPT
        !.NewValidProofOutputs =
            [current.NewValidProofOutputs EXCEPT
                ![1].Value = CurrencySub(current.NewValidProofOutputs[1].Value, cost),
                ![2].Value = CurrencyAdd(current.NewValidProofOutputs[2].Value, cost)],
        !.NewMissedProofOutputs =
            [current.NewMissedProofOutputs EXCEPT
                ![1].Value = CurrencySub(current.NewMissedProofOutputs[1].Value, cost),
                ![3].Value = CurrencyAdd(current.NewMissedProofOutputs[3].Value, cost)],
        !.NewRevisionNumber = current.NewRevisionNumber + 1]

newDownloadRevision(current, downloadCost) == newRevision(current, downloadCost)

\* newUploadRevision that charges the price but moves no collateral.
newUploadRevisionNoCollateral(current, merkleRoot, price, collateral) ==
    [newRevision(current, price) EXCEPT
        !.NewFileSize = @ + SectorSize,
        !.NewFileMerkleRoot = merkleRoot]

\* newUploadRevision that also credits the price to the host's missed output.
newUploadRevisionPaysHostMissed(current, merkleRoot, price, collateral) ==
    LET r == newRevision(current, price) IN
    [r EXCEPT
        !.NewMissedProofOutputs =
            [r.NewMissedProofOutputs EXCEPT
                ![2].Value = CurrencyAdd(CurrencySub(r.NewMissedProofOutputs[2].Value,
                                                     collateral), price),
                ![3].Value = CurrencyAdd(r.NewMissedProofOutputs[3].Value, collateral)],
        !.NewFileSize = r.NewFileSize + SectorSize,
        !.NewFileMerkleRoot = merkleRoot]

\* newUploadRevision that grows the file by one segment instead of one sector.
newUploadRevisionSegment(current, merkleRoot, price, collateral) ==
    LET r == newRevision(current, price) IN
    [r EXCEPT
        !.NewMissedProofOutputs =
            [r.NewMissedProofOutputs EXCEPT
                ![2].Value = CurrencySub(r.NewMissedProofOutputs[2].Value, collateral),
                ![3].Value = CurrencyAdd(r.NewMissedProofOutputs[3].Value, collateral)],
        !.NewFileSize = r.NewFileSize + SegmentSize,
        !.NewFileMerkleRoot = merkleRoot]

newUploadRevision(current, merkleRoot, price, collateral) ==
    LET r == newRevision(current, price) IN
    [r EXCEPT
        !.NewMissedProofOutputs =
            [r.NewMissedProofOutputs EXCEPT
                ![2].Value = CurrencySub(r.NewMissedProofOutputs[2].Value, collateral),
                ![3].Value = CurrencyAdd(r.NewMissedProofOutputs[3].Value, collateral)],
        !.NewFileSize = r.NewFileSize + SectorSize,
        !.NewFileMerkleRoot = merkleRoot]

(***************************************************************************)
(* The memory behind the output lists.  current is passed by value, but its *)
(* two output lists are slices: rev := current shares their arrays until    *)
(* rev is given arrays of its own.  newRevisionArrays gives the arrays      *)
(* behind current and behind rev when newRevision returns.                  *)
(***************************************************************************)
\* copy(make([]types.SiacoinOutput, n), src)
CopyOutputs(n, src) ==
    [i \in 1..n |-> IF i <= Len(src) THEN src[i] ELSE Output(0, "")]

\* newRevision without make and copy: rev writes into the arrays of current
newRevisionArraysShared(current, cost) ==
    LET v1 == [current.NewValidProofOutputs EXCEPT
                  ![1].Value = CurrencySub(current.NewValidProofOutputs[1].Value, cost)]
        v2 == [v1 EXCEPT ![2].Value = CurrencyAdd(v1[2].Value, cost)]
        m1 == [current.NewMissedProofOutputs EXCEPT
                  ![1].Value = CurrencySub(current.NewMissedProofOutputs[1].Value, cost)]
        m2 == [m1 EXCEPT ![3].Value = CurrencyAdd(m1[3].Value, cost)]
    IN [shared |-> TRUE, curValid |-> v2, curMissed |-> m2,
        revValid |-> v2, revMissed |-> m2]

newRevisionArrays(current, cost) ==
    LET v0 == CopyOutputs(2, current.NewValidProofOutputs)
        m0 == CopyOutputs(3, current.NewMissedProofOutputs)
        v1 == [v0 EXCEPT
                  ![1].Value = CurrencySub(current.NewValidProofOutputs[1].Value, cost)]
        v2 == [v1 EXCEPT
                  ![2].Value = CurrencyAdd(current.NewValidProofOutputs[2].Value, cost)]
        m1 == [m0 EXCEPT
                  ![1].Value = CurrencySub(current.NewMissedProofOutputs[1].Value, cost)]
        m2 == [m1 EXCEPT
                  ![3].Value = CurrencyAdd(current.NewMissedProofOutputs[3].Value, cost)]
    IN [shared |-> FALSE,
        curValid |-> current.NewValidProofOutputs,
        curMissed |-> current.NewMissedProofOutputs,
        revValid |-> v2, revMissed |-> m2]

\* the caller's current revision after newDownloadRevision(current, cost)
newDownloadRevisionLeaves(current, downloadCost) ==
    LET a == newRevisionArrays(current, downloadCost) IN
    [current EXCEPT !.NewValidProofOutputs = a.curValid,
                    !.NewMissedProofOutputs = a.curMissed]

\* the caller's current revision after newUploadRevision(current, ...): the
\* collateral is moved in the arrays of the rev that newRevision returned
newUploadRevisionLeaves(current, merkleRoot, price, collateral) ==
    LET a == newRevisionArrays(current, price)
        m == [a.revMissed EXCEPT
                 ![2].Value = CurrencySub(a.revMissed[2].Value, collateral),
                 ![3].Value = CurrencyAdd(a.revMissed[3].Value, collateral)]
    IN [current EXCEPT !.NewValidProofOutputs = a.curValid,
                       !.NewMissedProofOutputs = IF a.shared THEN m ELSE a.curMissed]

(***************************************************************************)
(* The contract a session starts from: the revision left by formation and   *)
(* by earlier sessions.  Valid and missed outputs carry the same total.     *)
(***************************************************************************)
InitialRevision(n, r, h, hm, size) ==
    [ParentID              |-> "fcid",
     UnlockConditions      |-> "uc",
     NewRevisionNumber     |-> n,
     NewFileSize           |-> size * SectorSize,
     NewFileMerkleRoot     |-> IF size = 0 THEN "r0" ELSE "r1",
     NewWindowStart        |-> 100,
     NewWindowEnd          |-> 200,
     NewValidProofOutputs  |-> <<Output(r, "renter"), Output(h, "host")>>,
     NewMissedProofOutputs |-> <<Output(r, "renter"), Output(hm, "host"),
                                 Output(h - hm, "void")>>,
     NewUnlockHash         |-> "uh"]

InitSession ==
    /\ \E n \in 1..2, r \in 0..MaxFunds, h \in 0..MaxHostFunds, size \in 0..1 :
         \E hm \in 0..h :
            contract = InitialRevision(n, r, h, hm, size)
    /\ rev = NoRev
    /\ args = NoArgs
    /\ pc = "idle"
    /\ wire = <<>>
    /\ responseErr = "nil"
    /\ hostSig = "none"
    /\ result = NoResult
    /\ signedTxn = NoTxn
    /\ committed = <<>>
    /\ iters = 0

(***************************************************************************)
(* One iteration.  The caller builds the revision for its action and calls  *)
(* negotiateRevision.  A price above the renter's funds or a collateral     *)
(* above the host's missed output is outside Currency.Sub's domain, so the  *)
(* inputs are drawn from inside it.                                         *)
(***************************************************************************)
CanPay(current, cost) ==
    /\ cost <= current.NewValidProofOutputs[1].Value
    /\ cost <= current.NewMissedProofOutputs[1].Value

BeginIteration(r, a, current) ==
    /\ rev' = r
    /\ contract' = current
    /\ args' = a
    /\ pc' = "sign"
    /\ wire' = <<>>
    /\ responseErr' = "nil"
    /\ hostSig' = "none"
    /\ result' = NoResult
    /\ signedTxn' = NoTxn
    /\ iters' = iters + 1
    /\ UNCHANGED committed
    /\ UNCHANGED <<sbVars, extVars>>

Download ==
    /\ pc = "idle"
    /\ iters < MaxIter
    /\ \E cost \in 0..MaxCost :
        /\ CanPay(contract, cost)
        /\ BeginIteration(newDownloadRevision(contract, cost),
                          [op |-> "download", cost |-> cost, collateral |-> 0,
                           root |-> "r0"],
                          newDownloadRevisionLeaves(contract, cost))

Upload ==
    /\ pc = "idle"
    /\ iters < MaxIter
    /\ \E price \in 0..MaxCost, collateral \in 0..MaxCollateral, root \in Roots :
        /\ CanPay(contract, price)
        /\ collateral <= contract.NewMissedProofOutputs[2].Value
        /\ BeginIteration(newUploadRevision(contract, root, price, collateral),
                          [op |-> "upload", cost |-> price,
                           collateral |-> collateral, root |-> root],
                          newUploadRevisionLeaves(contract, root, price, collateral))

(***************************************************************************)
(* negotiateRevision, one socket operation per action.                      *)
(***************************************************************************)
Event(op, what, outcome) == [op |-> op, what |-> what, outcome |-> outcome]

RenterSignature == [PublicKeyIndex |-> 0, Signature |-> "renter"]

\* modules.ReadNegotiationAcceptance: nil on the accept tag, ErrStopResponse on
\* the stop tag, another error on any other answer or on a failed read.
Responses == {"accept", "stop", "reject", "ioerr"}

ReadNegotiationAcceptance(resp) ==
    CASE resp = "accept" -> "nil"
      [] resp = "stop"   -> "ErrStopResponse"
      [] resp = "reject" -> "rejected"
      [] OTHER           -> "read failed"

\* Transaction.StandaloneValid at the given height: both parties' signatures
\* cover the revision.
StandaloneValid(txn, height) ==
    /\ height >= 0
    /\ Len(txn.FileContractRevisions) = 1
    /\ Len(txn.TransactionSignatures) = 2
    /\ txn.TransactionSignatures[1].Signature = "renter"
    /\ txn.TransactionSignatures[2].Signature = "host"

Return(txn, err) ==
    /\ result' = [txn |-> txn, err |-> err]
    /\ pc' = "returned"

SignTxn ==
    /\ pc = "sign"
    /\ signedTxn' = [FileContractRevisions |-> <<rev>>,
                     TransactionSignatures |-> <<RenterSignature>>]
    /\ pc' = "sendRev"
    /\ UNCHANGED <<contract, rev, args, wire, responseErr, hostSig, result,
                   committed, iters>>
    /\ UNCHANGED <<sbVars, extVars>>

\* SendRevision that sends the signature along with the revision.
SendRevisionPipelined ==
    /\ pc = "sendRev"
    /\ \E ok \in BOOLEAN :
        /\ wire' = wire \o <<Event("write", "revision", IF ok THEN "ok" ELSE "failed"),
                              Event("write", "signature", IF ok THEN "ok" ELSE "failed")>>
        /\ IF ok
           THEN pc' = "readAccept" /\ UNCHANGED result
           ELSE Return(NoTxn, "could not send revision")
    /\ UNCHANGED <<contract, rev, args, responseErr, hostSig, signedTxn,
                   committed, iters>>
    /\ UNCHANGED <<sbVars, extVars>>

SendRevision ==
    /\ pc = "sendRev"
    /\ \E ok \in BOOLEAN :
        /\ wire' = Append(wire, Event("write", "revision", IF ok THEN "ok" ELSE "failed"))
        /\ IF ok
           THEN pc' = "readAccept" /\ UNCHANGED result
           ELSE Return(NoTxn, "could not send revision")
    /\ UNCHANGED <<contract, rev, args, responseErr, hostSig, signedTxn,
                   committed, iters>>
    /\ UNCHANGED <<sbVars, extVars>>

\* ReadAcceptance that lets a StopResponse through, as the second read does.
ReadAcceptanceLenient ==
    /\ pc = "readAccept"
    /\ \E resp \in Responses :
        /\ wire' = Append(wire, Event("read", "acceptance", resp))
        /\ IF ReadNegotiationAcceptance(resp) \notin {"nil", "ErrStopResponse"}
           THEN Return(NoTxn, "host did not accept revision")
           ELSE pc' = "sendSig" /\ UNCHANGED result
    /\ UNCHANGED <<contract, rev, args, responseErr, hostSig, signedTxn,
                   committed, iters>>
    /\ UNCHANGED <<sbVars, extVars>>

ReadAcceptance ==
    /\ pc = "readAccept"
    /\ \E resp \in Responses :
        /\ wire' = Append(wire, Event("read", "acceptance", resp))
        /\ IF ReadNegotiationAcceptance(resp) /= "nil"
           THEN Return(NoTxn, "host did not accept revision")
           ELSE pc' = "sendSig" /\ UNCHANGED result
    /\ UNCHANGED <<contract, rev, args, responseErr, hostSig, signedTxn,
                   committed, iters>>
    /\ UNCHANGED <<sbVars, extVars>>

SendSignature ==
    /\ pc = "sendSig"
    /\ \E ok \in BOOLEAN :
        /\ wire' = Append(wire, Event("write", "signature", IF ok THEN "ok" ELSE "failed"))
        /\ IF ok
           THEN pc' = "readResponse" /\ UNCHANGED result
           ELSE Return(NoTxn, "could not send transaction signature")
    /\ UNCHANGED <<contract, rev, args, responseErr, hostSig, signedTxn,
                   committed, iters>>
    /\ UNCHANGED <<sbVars, extVars>>

\* ReadResponse that treats a StopResponse like any other error.
ReadResponseAbortOnStop ==
    /\ pc = "readResponse"
    /\ \E resp \in Responses :
        /\ wire' = Append(wire, Event("read", "response", resp))
        /\ responseErr' = ReadNegotiationAcceptance(resp)
        /\ IF responseErr' /= "nil"
           THEN Return(NoTxn, "host did not accept transaction signature")
           ELSE pc' = "readHostSig" /\ UNCHANGED result
    /\ UNCHANGED <<contract, rev, args, hostSig, signedTxn, committed, iters>>
    /\ UNCHANGED <<sbVars, extVars>>

ReadResponse ==
    /\ pc = "readResponse"
    /\ \E resp \in Responses :
        /\ wire' = Append(wire, Event("read", "response", resp))
        /\ responseErr' = ReadNegotiationAcceptance(resp)
        /\ IF responseErr' /= "nil" /\ responseErr' /= "ErrStopResponse"
           THEN Return(NoTxn, "host did not accept transaction signature")
           ELSE pc' = "readHostSig" /\ UNCHANGED result
    /\ UNCHANGED <<contract, rev, args, hostSig, signedTxn, committed, iters>>
    /\ UNCHANGED <<sbVars, extVars>>

ReadHostSignature ==
    /\ pc = "readHostSig"
    /\ \E got \in {"host", "garbage", "ioerr"} :
        /\ wire' = Append(wire, Event("read", "signature", got))
        /\ IF got = "ioerr"
           THEN /\ Return(NoTxn, "could not read host's signature")
                /\ UNCHANGED hostSig
           ELSE /\ hostSig' = [PublicKeyIndex |-> 1, Signature |-> got]
                /\ pc' = "validate"
                /\ UNCHANGED result
    /\ UNCHANGED <<contract, rev, args, responseErr, signedTxn, committed, iters>>
    /\ UNCHANGED <<sbVars, extVars>>

Validate ==
    /\ pc = "validate"
    /\ signedTxn' = [signedTxn EXCEPT
                        !.TransactionSignatures = Append(@, hostSig)]
    /\ IF StandaloneValid(signedTxn', rev.NewWindowStart - 1)
       THEN Return(signedTxn', responseErr)
       ELSE Return(NoTxn, "negotiated transaction is invalid")
    /\ UNCHANGED <<contract, rev, args, wire, responseErr, hostSig,
                   committed, iters>>
    /\ UNCHANGED <<sbVars, extVars>>

(***************************************************************************)
(* The caller of negotiateRevision (Uploader.Upload, Downloader.Sector):    *)
(* it persists the returned revision when the iteration completed, with or  *)
(* without a StopResponse, and closes the session after a StopResponse.     *)
(***************************************************************************)
Completed(res) == res.err \in {"nil", "ErrStopResponse"}

FinishIteration ==
    /\ pc = "returned"
    /\ IF Completed(result)
       THEN /\ contract' = result.txn.FileContractRevisions[1]
            /\ committed' = Append(committed, contract'.NewRevisionNumber)
            /\ pc' = IF result.err = "nil" THEN "idle" ELSE "closed"
       ELSE /\ UNCHANGED <<contract, committed>>
            /\ pc' \in {"idle", "closed"}
    /\ rev' = NoRev
    /\ UNCHANGED <<args, wire, responseErr, hostSig, result, signedTxn, iters>>
    /\ UNCHANGED <<sbVars, extVars>>

(***************************************************************************)
(* Properties of the revision builder and of the session.                   *)
(***************************************************************************)
Balanced(r) ==
    SumValues(r.NewValidProofOutputs) = SumValues(r.NewMissedProofOutputs)

Negotiating == rev /= NoRev

\* C1: coin conservation.  The contract's valid and missed outputs always
\* carry the same total, and a revision built from a balanced current revision
\* with a cost the renter's outputs cover and a collateral the host's missed
\* output covers has sum(valid) = sum(missed) = sum(previous valid).
C1_CoinConservation ==
    /\ Balanced(contract)
    /\ (/\ Negotiating
        /\ Balanced(contract)
        /\ CanPay(contract, args.cost)
        /\ args.collateral <= contract.NewMissedProofOutputs[2].Value)
       => /\ SumValues(rev.NewValidProofOutputs) = SumValues(rev.NewMissedProofOutputs)
          /\ SumValues(rev.NewValidProofOutputs) = SumValues(contract.NewValidProofOutputs)

C1_Witness ==
    /\ Negotiating
    /\ args.op = "upload"
    /\ args.cost > 0
    /\ args.collateral > 0
    /\ Len(committed) >= 1
    /\ contract.NewMissedProofOutputs[3].Value > 0

StrictlyIncreasing(s) ==
    \A i, j \in 1..Len(s) : i < j => s[i] < s[j]

\* C2: monotonic revisions.  The revision under negotiation carries exactly the
\* current revision's number plus one, and the numbers committed in a session
\* are strictly increasing in the order they were produced.
C2_MonotonicRevisions ==
    /\ Negotiating => /\ rev.NewRevisionNumber = contract.NewRevisionNumber + 1
                      /\ rev.NewRevisionNumber > contract.NewRevisionNumber
    /\ StrictlyIncreasing(committed)
    /\ committed /= <<>> => committed[Len(committed)] = contract.NewRevisionNumber

C2_Witness ==
    /\ Len(committed) >= 2
    /\ Negotiating => args.op = "download"

\* C3: upload revision transfer.  From revision N with renter valid output R
\* and host valid output H, price c and collateral k give revision N+1 with
\* renter valid R-c, host valid H+c, renter missed decreased by c and void
\* missed increased by c+k.
C3_UploadTransfer ==
    (Negotiating /\ args.op = "upload") =>
        /\ rev.NewRevisionNumber = contract.NewRevisionNumber + 1
        /\ rev.NewValidProofOutputs[1].Value =
               contract.NewValidProofOutputs[1].Value - args.cost
        /\ rev.NewValidProofOutputs[2].Value =
               contract.NewValidProofOutputs[2].Value + args.cost
        /\ rev.NewMissedProofOutputs[1].Value =
               contract.NewMissedProofOutputs[1].Value - args.cost
        /\ rev.NewMissedProofOutputs[3].Value =
               contract.NewMissedProofOutputs[3].Value + args.cost + args.collateral

C3_Witness ==
    /\ Negotiating
    /\ args.op = "upload"
    /\ args.cost = MaxCost
    /\ args.collateral = MaxCollateral
    /\ pc = "validate"

\* C4 as stated: after an upload with cost c and collateral k from host balance
\* H, the host's missed output of the new revision is H - k + c.
C4_HostMissedAsStated ==
    (Negotiating /\ args.op = "upload") =>
        rev.NewMissedProofOutputs[2].Value =
            contract.NewValidProofOutputs[2].Value - args.collateral + args.cost

\* C4 amended: the host's missed output of the new revision is its previous
\* missed output minus the collateral k; the cost c goes to the void output.
C4_HostMissedLosesCollateral ==
    (Negotiating /\ args.op = "upload") =>
        /\ rev.NewMissedProofOutputs[2].Value =
               contract.NewMissedProofOutputs[2].Value - args.collateral
        /\ rev.NewMissedProofOutputs[2].Value + rev.NewMissedProofOutputs[3].Value =
               rev.NewValidProofOutputs[2].Value

C4_Witness ==
    /\ Negotiating
    /\ args.op = "upload"
    /\ args.cost > 0
    /\ args.collateral > 0
    /\ contract.NewMissedProofOutputs[2].Value = contract.NewValidProofOutputs[2].Value

\* C5: file size and Merkle root.  An upload revision grows the file by exactly
\* SectorSize and takes the supplied root; a download revision leaves file
\* size, root and the host's missed output alone; the file size is always a
\* multiple of SectorSize.
C5_FileSizeAndRoot ==
    /\ contract.NewFileSize % SectorSize = 0
    /\ Negotiating => rev.NewFileSize % SectorSize = 0
    /\ (Negotiating /\ args.op = "upload") =>
          /\ rev.NewFileSize = contract.NewFileSize + SectorSize
          /\ rev.NewFileMerkleRoot = args.root
    /\ (Negotiating /\ args.op = "download") =>
          /\ rev.NewFileSize = contract.NewFileSize
          /\ rev.NewFileMerkleRoot = contract.NewFileMerkleRoot
          /\ rev.NewMissedProofOutputs[2] = contract.NewMissedProofOutputs[2]

C5_Witness ==
    /\ Negotiating
    /\ args.op = "download"
    /\ args.cost > 0
    /\ Len(committed) = 1
    /\ contract.NewFileSize = 2 * SectorSize
    /\ contract.NewFileMerkleRoot = "r2"

AcceptedExchange(w) ==
    /\ Len(w) = 5
    /\ w[1] = Event("write", "revision", "ok")
    /\ w[2] = Event("read", "acceptance", "accept")
    /\ w[3] = Event("write", "signature", "ok")
    /\ w[4] \in {Event("read", "response", "accept"), Event("read", "response", "stop")}
    /\ w[5] = Event("read", "signature", "host")

C9_Returned ==
    pc = "returned" =>
        IF result.txn /= NoTxn
        THEN /\ AcceptedExchange(wire)
             /\ result.txn.FileContractRevisions = <<rev>>
             /\ Len(result.txn.TransactionSignatures) = 2
             /\ StandaloneValid(result.txn, rev.NewWindowStart - 1)
             /\ result.err \in {"nil", "ErrStopResponse"}
        ELSE /\ ~AcceptedExchange(wire)
             /\ result.err \notin {"nil", "ErrStopResponse", "unset"}

C9_ContractStep ==
    contract' /= contract =>
        /\ pc = "returned"
        /\ result.txn /= NoTxn
        /\ contract' = result.txn.FileContractRevisions[1]

\* C9: no persistence of a failed iteration.  negotiateRevision returns a
\* non-empty, fully signed transaction only after the host accepted the
\* revision, answered the signature with Acceptance or StopResponse, delivered
\* its signature and the transaction validated; every other outcome returns
\* the empty transaction with an error, and the contract's stored revision
\* changes only by committing a returned transaction.
C9_NoPersistenceOnFailure == []C9_Returned /\ [][C9_ContractStep]_vars

C9_Witness ==
    /\ pc = "idle"
    /\ result.txn = NoTxn
    /\ result.err = "negotiated transaction is invalid"
    /\ Len(committed) = 1
    /\ iters = 2

\* C10: StopResponse propagation.  After a StopResponse to the renter's
\* signature the host's signature is still read and the transaction validated,
\* and a valid transaction is returned together with ErrStopResponse; a stop or
\* rejection answering the revision itself ends the iteration before the
\* renter's signature is written.
C10_StopResponse ==
    /\ (Len(wire) >= 4 /\ wire[4].outcome = "stop") =>
          /\ pc \in {"readHostSig", "validate", "returned", "idle", "closed"}
          /\ responseErr = "ErrStopResponse"
          /\ pc \in {"validate", "returned", "idle", "closed"} =>
                (Len(wire) = 5 /\ wire[5].op = "read" /\ wire[5].what = "signature")
          /\ (pc = "returned" /\ wire[5].outcome = "host") =>
                /\ result.err = "ErrStopResponse"
                /\ result.txn = signedTxn
                /\ Len(result.txn.TransactionSignatures) = 2
    /\ (Len(wire) >= 2 /\ wire[2].outcome \in {"stop", "reject"}) =>
          /\ Len(wire) = 2
          /\ pc \in {"returned", "idle", "closed"}
          /\ result = [txn |-> NoTxn, err |-> "host did not accept revision"]
    /\ (\E i \in 1..Len(wire) : wire[i].what = "signature" /\ wire[i].op = "write") =>
          wire[2] = Event("read", "acceptance", "accept")

C10_Witness ==
    /\ pc = "returned"
    /\ result.err = "ErrStopResponse"
    /\ result.txn /= NoTxn
    /\ wire[4].outcome = "stop"

SameImmutables(r, current) ==
    /\ r.ParentID = current.ParentID
    /\ r.UnlockConditions = current.UnlockConditions
    /\ r.NewWindowStart = current.NewWindowStart
    /\ r.NewWindowEnd = current.NewWindowEnd
    /\ r.NewUnlockHash = current.NewUnlockHash
    /\ Len(r.NewValidProofOutputs) = Len(current.NewValidProofOutputs)
    /\ Len(r.NewMissedProofOutputs) = Len(current.NewMissedProofOutputs)
    /\ \A i \in 1..Len(r.NewValidProofOutputs) :
          r.NewValidProofOutputs[i].UnlockHash = current.NewValidProofOutputs[i].UnlockHash
    /\ \A i \in 1..Len(r.NewMissedProofOutputs) :
          r.NewMissedProofOutputs[i].UnlockHash = current.NewMissedProofOutputs[i].UnlockHash

C29_Built ==
    Negotiating =>
        /\ SameImmutables(rev, contract)
        /\ args.op = "download" =>
              /\ rev.NewValidProofOutputs = newRevisionArrays(contract, args.cost).revValid
              /\ rev.NewMissedProofOutputs = newRevisionArrays(contract, args.cost).revMissed
        /\ args.op = "upload" =>
              rev.NewValidProofOutputs = newRevisionArrays(contract, args.cost).revValid

C29_BuildStep ==
    (pc = "idle" /\ pc' = "sign") => contract' = contract

\* C29: revision immutables and input isolation.  The revision that
\* newDownloadRevision or newUploadRevision builds has the parent ID, unlock
\* conditions, window start and end and output unlock hashes of the current
\* revision, and building it leaves the current revision passed in, its valid
\* and missed output values included, as it was.
C29_ImmutablesAndIsolation == []C29_Built /\ [][C29_BuildStep]_vars

C29_Witness ==
    /\ Negotiating
    /\ iters = 1
    /\ args.op = "upload"
    /\ args.cost = 2
    /\ args.collateral = 1
    /\ rev.NewValidProofOutputs[1].Value = contract.NewValidProofOutputs[1].Value - 2
    /\ rev.NewMissedProofOutputs[2].Value = contract.NewMissedProofOutputs[2].Value - 1

\* the reads and writes of negotiateRevision, in the order of the code
ExchangeOrder ==
    <<[op |-> "write", what |-> "revision"], [op |-> "read", what |-> "acceptance"],
      [op |-> "write", what |-> "signature"], [op |-> "read", what |-> "response"],
      [op |-> "read", what |-> "signature"]>>

\* C24: strictly sequential exchange.  The reads and writes of one
\* negotiateRevision are a prefix of: write revision, read acceptance, write
\* signature, read acceptance or stop, read host signature; the signature is
\* written only right after an Acceptance of the revision was read, and no
\* write follows another write without a read in between.
C24_SequentialExchange ==
    /\ Len(wire) <= Len(ExchangeOrder)
    /\ \A i \in 1..Len(wire) :
          /\ wire[i].op = ExchangeOrder[i].op
          /\ wire[i].what = ExchangeOrder[i].what
          /\ (wire[i].op = "write" /\ wire[i].what = "signature") =>
                (i > 1 /\ wire[i - 1] = Event("read", "acceptance", "accept"))
          /\ (i > 1 /\ wire[i].op = "write") => wire[i - 1].op = "read"
          /\ (i > 1 /\ wire[i - 1].op = "write") => wire[i - 1].outcome = "ok"

C24_Witness ==
    /\ pc = "returned"
    /\ iters = 2
    /\ Len(wire) = 5
    /\ wire[4].outcome = "accept"
    /\ wire[5].outcome = "host"
    /\ result.err = "nil"

(***************************************************************************)
(* 64-bit integers.  int64 and uint64 values are kept as their eight bytes, *)
(* least significant first, so that arithmetic wraps as the machine's does. *)
(***************************************************************************)
Bytes64(lo, hi) ==
    \* lo: the low 16 bits, hi: bits 48..55
    <<lo % 256, lo \div 256, 0, 0, 0, 0, hi, 0>>

MinusOne64 == <<255, 255, 255, 255, 255, 255, 255, 255>>

\* x * m modulo 2^64, for 0 <= m <= 2^16: schoolbook multiplication, byte by
\* byte, the carry out of the top byte dropped
Mul64(x, m) ==
    LET p1 == x[1] * m
        p2 == x[2] * m + (p1 \div 256)
        p3 == x[3] * m + (p2 \div 256)
        p4 == x[4] * m + (p3 \div 256)
        p5 == x[5] * m + (p4 \div 256)
        p6 == x[6] * m + (p5 \div 256)
        p7 == x[7] * m + (p6 \div 256)
        p8 == x[8] * m + (p7 \div 256)
    IN <<p1 % 256, p2 % 256, p3 % 256, p4 % 256,
         p5 % 256, p6 % 256, p7 % 256, p8 % 256>>

\* x + k modulo 2^64, for 0 <= k < 2^16
Add64(x, k) ==
    LET s1 == x[1] + k
        s2 == x[2] + (s1 \div 256)
        s3 == x[3] + (s2 \div 256)
        s4 == x[4] + (s3 \div 256)
        s5 == x[5] + (s4 \div 256)
        s6 == x[6] + (s5 \div 256)
        s7 == x[7] + (s6 \div 256)
        s8 == x[8] + (s7 \div 256)
    IN <<s1 % 256, s2 % 256, s3 % 256, s4 % 256,
         s5 % 256, s6 % 256, s7 % 256, s8 % 256>>

\* x <= y as unsigned 64-bit integers
Leq64(x, y) ==
    \/ x = y
    \/ \E i \in 1..8 : x[i] < y[i] /\ \A j \in (i + 1)..8 : x[j] = y[j]

(***************************************************************************)
(* SectorBuilder.  The 4 MiB buffer is kept as a set of extents             *)
(* [lo, hi) -> src, where the byte at p is byte p - base of src; src is     *)
(* zero bytes, one fastrand.Read result, or the ciphertext EncryptSegments  *)
(* left for one Append.                                                     *)
(***************************************************************************)
Keys == {"k1"}

\* what fastrand.Read leaves in the bytes it is given: opaque to the builder
RandomFill == [kind |-> "random"]

NoData == [id |-> "none", len |-> 0]

DataInputs ==
    {[id |-> "empty", len |-> 0],
     [id |-> "ABC",   len |-> 3],
     [id |-> "DEFGH", len |-> 5],
     [id |-> "most",  len |-> SectorSize - SegmentSize],
     [id |-> "over",  len |-> SectorSize + 1]}

\* chunk indices 0, 1, 2^48 and -1
ChunkIndexInputs ==
    {Bytes64(0, 0), Bytes64(1, 0), Bytes64(0, 1), MinusOne64}

ZeroHash == [unset |-> TRUE]

Extent(lo, hi, src) == [lo |-> lo, hi |-> hi, src |-> src, base |-> lo]

ZeroSector == {Extent(0, SectorSize, [kind |-> "zero"])}

Min(a, b) == IF a < b THEN a ELSE b

Max(a, b) == IF a > b THEN a ELSE b

\* the buffer after bytes [lo, hi) are overwritten with src
Write(buf, lo, hi, src) ==
    IF lo >= hi THEN buf
    ELSE {[e EXCEPT !.hi = Min(e.hi, lo)] : e \in {x \in buf : x.lo < lo}}
         \cup {[e EXCEPT !.lo = Max(e.lo, hi)] : e \in {x \in buf : x.hi > hi}}
         \cup {Extent(lo, hi, src)}

\* crypto.HashBytes and proto.SectorMerkleRoot: collision-free digests
HashBytes(data) == [hash |-> data.id]

SectorMerkleRoot(buf) == [root |-> buf]

\* startIndex := uint64(chunkIndex * proto.SegmentsPerSector), without the scaling
StartIndexUnscaled(chunkIndex) == chunkIndex

StartIndex(chunkIndex) == Mul64(chunkIndex, SegmentsPerSector)

\* Append that pads nothing
PaddingNone(n) == 0

Padding(n) ==
    IF n % SegmentSize /= 0 THEN SegmentSize - (n % SegmentSize) ELSE 0

\* what copy, fastrand.Read and key.EncryptSegments leave in sectorSlice
CipherText(data, padding, key, startIndex) ==
    [kind |-> "cipher", data |-> data.id,
     pad |-> IF padding = 0 THEN <<>> ELSE <<RandomFill>>,
     key |-> key, start |-> startIndex]

\* Append that records no slice for empty data
RecordSliceSkipEmpty(sl, off, data) ==
    IF data.len = 0 THEN sl
    ELSE Append(sl, [Offset |-> off, Length |-> data.len,
                     Checksum |-> HashBytes(data), MerkleRoot |-> ZeroHash])

\* sb.slices = append(sb.slices, SectorSlice{...})
RecordSlice(sl, off, data) ==
    Append(sl, [Offset |-> off, Length |-> data.len,
                Checksum |-> HashBytes(data), MerkleRoot |-> ZeroHash])

SBLen == sectorLen

Remaining == SectorSize - sectorLen

Slices == slices

\* the check of Append, taking a sector that would be exactly filled for full
ExceedsRemainingOrFills(len, n, padding) == len + n + padding >= SectorSize

\* sb.sectorLen+len(data)+padding > proto.SectorSize
ExceedsRemaining(len, n, padding) == len + n + padding > SectorSize

(***************************************************************************)
(* The memory behind sb.slices.  A Go slice is a view of a backing array;   *)
(* held is a list a caller kept from Slices(): its elements as the caller   *)
(* sees them now, and whether its backing array is still the one sb.slices  *)
(* uses.  Reset, append and Finish return [held, cap].                      *)
(***************************************************************************)
NotHeld == [taken |-> FALSE, val |-> <<>>, shared |-> FALSE, reset |-> FALSE]

\* Reset that keeps the backing array: sb.slices = sb.slices[:0]
ResetSlicesKeepingCapacity(h, c) ==
    [held |-> [h EXCEPT !.reset = h.taken], cap |-> c]

\* sb.slices = nil
ResetSlices(h, c) ==
    [held |-> [h EXCEPT !.shared = FALSE, !.reset = h.taken], cap |-> 0]

\* append(sb.slices, new) on a list sl of capacity c: in place while there is
\* room, else into a new array of twice the capacity
AppendSlices(h, c, sl, new) ==
    IF Len(sl) < c
    THEN [held |-> IF h.shared /\ Len(sl) + 1 <= Len(h.val)
                   THEN [h EXCEPT !.val[Len(sl) + 1] = new]
                   ELSE h,
          cap |-> c]
    ELSE [held |-> [h EXCEPT !.shared = FALSE],
          cap |-> IF c = 0 THEN 1 ELSE 2 * c]

\* sb.slices[i].MerkleRoot = sectorRoot, for every i: sl is the list afterwards
FinishSlices(h, c, sl) ==
    [held |-> IF h.shared
              THEN [h EXCEPT !.val = [i \in 1..Len(h.val) |->
                                         IF i <= Len(sl) THEN sl[i] ELSE h.val[i]]]
              ELSE h,
     cap |-> c]

Memory(m) ==
    /\ held' = m.held
    /\ slicesCap' = m.cap

StepSB(op) ==
    /\ ops < MaxOps
    /\ ops' = ops + 1
    /\ lastOp' = op
    /\ UNCHANGED <<sessionVars, extVars>>

Reset ==
    /\ StepSB("Reset")
    /\ sectorLen' = 0
    /\ slices' = <<>>
    /\ sealed' = FALSE
    /\ Memory(ResetSlices(held, slicesCap))
    /\ UNCHANGED <<sector, encLog, lastData>>

SBAppend ==
    \E data \in DataInputs, key \in Keys, chunkIndex \in ChunkIndexInputs :
        LET padding    == Padding(data.len)
            padded     == data.len + padding
            startIndex == StartIndex(chunkIndex)
        IN
        IF ExceedsRemaining(sectorLen, data.len, padding)
        THEN \* panic("data exceeds sector size")
             /\ StepSB("AppendPanic")
             /\ lastData' = data
             /\ UNCHANGED <<sector, sectorLen, slices, encLog, sealed, slicesCap, held>>
        ELSE /\ StepSB("Append")
             /\ lastData' = data
             /\ sector' = Write(sector, sectorLen, sectorLen + padded,
                             CipherText(data, padding, key, startIndex))
             /\ encLog' = Append(encLog,
                                 [key |-> key, chunkIndex |-> chunkIndex,
                                  first |-> startIndex,
                                  n |-> padded \div SegmentSize])
             /\ slices' = RecordSlice(slices, sectorLen, data)
             /\ Memory(AppendSlices(held, slicesCap, slices,
                                    RecordSlice(<<>>, sectorLen, data)[1]))
             /\ UNCHANGED sealed
             /\ sectorLen' = sectorLen + padded

\* Finish that takes the Merkle root before filling the tail
FinishRootBeforeFill ==
    /\ StepSB("Finish")
    /\ sector' = Write(sector, sectorLen, SectorSize, RandomFill)
    /\ sectorLen' = SectorSize
    /\ slices' = [i \in 1..Len(slices) |->
                     [slices[i] EXCEPT !.MerkleRoot = SectorMerkleRoot(sector)]]
    /\ sealed' = TRUE
    /\ Memory(FinishSlices(held, slicesCap, slices'))
    /\ UNCHANGED <<encLog, lastData>>

\* Finish that fills the whole buffer with random bytes
FinishOverwritesAll ==
    /\ StepSB("Finish")
    /\ sector' = Write(sector, 0, SectorSize, RandomFill)
    /\ sectorLen' = SectorSize
    /\ slices' = [i \in 1..Len(slices) |->
                     [slices[i] EXCEPT !.MerkleRoot = SectorMerkleRoot(sector')]]
    /\ sealed' = TRUE
    /\ Memory(FinishSlices(held, slicesCap, slices'))
    /\ UNCHANGED <<encLog, lastData>>

\* Finish that leaves sectorLen where it was
FinishKeepsLen ==
    /\ StepSB("Finish")
    /\ sector' = Write(sector, sectorLen, SectorSize, RandomFill)
    /\ slices' = [i \in 1..Len(slices) |->
                     [slices[i] EXCEPT !.MerkleRoot = SectorMerkleRoot(sector')]]
    /\ sealed' = TRUE
    /\ Memory(FinishSlices(held, slicesCap, slices'))
    /\ UNCHANGED <<sectorLen, encLog, lastData>>

Finish ==
    /\ StepSB("Finish")
    /\ sector' = Write(sector, sectorLen, SectorSize, RandomFill)
    /\ sectorLen' = SectorSize
    /\ slices' = [i \in 1..Len(slices) |->
                     [slices[i] EXCEPT !.MerkleRoot = SectorMerkleRoot(sector')]]
    /\ sealed' = TRUE
    /\ Memory(FinishSlices(held, slicesCap, slices'))
    /\ UNCHANGED <<encLog, lastData>>

InitBuilder ==
    /\ sector = ZeroSector
    /\ sectorLen = 0
    /\ slices = <<>>
    /\ encLog = <<>>
    /\ lastOp = "none"
    /\ lastData = NoData
    /\ sealed = FALSE
    /\ slicesCap = 0
    /\ held = NotHeld
    /\ ops = 0

(***************************************************************************)
(* Properties of the SectorBuilder.                                         *)
(***************************************************************************)
\* the extents tile [0, SectorSize) exactly once
FullSector(buf) ==
    /\ \A e \in buf : 0 <= e.lo /\ e.lo < e.hi /\ e.hi <= SectorSize
    /\ \A e, f \in buf : e /= f => (e.hi <= f.lo \/ f.hi <= e.lo)
    /\ \A e \in buf : e.hi = SectorSize \/ \E f \in buf : f.lo = e.hi
    /\ \E e \in buf : e.lo = 0

\* C6: sector roundness.  Right after Finish the buffer it returns is the full
\* SectorSize bytes, Len() is SectorSize, Remaining() is 0, and every slice of
\* Slices() carries the Merkle root of that sector.
C6_SectorRoundness ==
    lastOp = "Finish" =>
        /\ FullSector(sector)
        /\ SBLen = SectorSize
        /\ Remaining = 0
        /\ \A i \in 1..Len(Slices) : Slices[i].MerkleRoot = SectorMerkleRoot(sector)

C6_Witness ==
    /\ lastOp = "Finish"
    /\ Len(Slices) = 2
    /\ Slices[1].Length = 3
    /\ Slices[2].Length = 5
    /\ Slices[1].MerkleRoot = Slices[2].MerkleRoot
    /\ Cardinality(sector) = 3

LastIndex(e) == Add64(e.first, e.n - 1)

\* the segment indices of two EncryptSegments calls meet
SegmentsOverlap(e, f) ==
    /\ e.n > 0
    /\ f.n > 0
    /\ Leq64(e.first, LastIndex(f))
    /\ Leq64(f.first, LastIndex(e))

\* C7 as stated: over any sequence of Appends with one key, no segment index
\* encrypts more than one segment of data.
C7_NoSegmentIndexReuse ==
    \A i, j \in 1..Len(encLog) :
        (i /= j /\ encLog[i].key = encLog[j].key) =>
            ~SegmentsOverlap(encLog[i], encLog[j])

\* the chunk's range [chunkIndex * P, chunkIndex * P + P) as first and last index
ChunkRangeFirst(chunkIndex) == Mul64(chunkIndex, SegmentsPerSector)

ChunkRangeLast(chunkIndex) == Add64(ChunkRangeFirst(chunkIndex), SegmentsPerSector - 1)

ChunkRangesOverlap(c, d) ==
    /\ Leq64(ChunkRangeFirst(c), ChunkRangeLast(d))
    /\ Leq64(ChunkRangeFirst(d), ChunkRangeLast(c))

InsideOwnRange(e) ==
    e.n > 0 =>
        /\ Leq64(ChunkRangeFirst(e.chunkIndex), e.first)
        /\ Leq64(e.first, LastIndex(e))
        /\ Leq64(LastIndex(e), ChunkRangeLast(e.chunkIndex))

\* C8 as stated: the ranges of any two distinct int64 chunk indices do not
\* overlap, and every Append encrypts inside its own chunk's range.
C8_DisjointForAllInt64 ==
    \A i, j \in 1..Len(encLog) :
        /\ InsideOwnRange(encLog[i])
        /\ encLog[i].chunkIndex /= encLog[j].chunkIndex =>
              /\ ~ChunkRangesOverlap(encLog[i].chunkIndex, encLog[j].chunkIndex)
              /\ ~SegmentsOverlap(encLog[i], encLog[j])

\* the low 48 bits of a chunk index: its residue modulo 2^48
Low48(chunkIndex) == [i \in 1..6 |-> chunkIndex[i]]

\* C8 amended: the ranges of two chunk indices that differ modulo 2^48 (so of
\* any two distinct indices in [0, 2^48)) do not overlap, and every Append
\* encrypts inside its own chunk's range.
C8_DisjointModulo2p48 ==
    \A i, j \in 1..Len(encLog) :
        /\ InsideOwnRange(encLog[i])
        /\ Low48(encLog[i].chunkIndex) /= Low48(encLog[j].chunkIndex) =>
              /\ ~ChunkRangesOverlap(encLog[i].chunkIndex, encLog[j].chunkIndex)
              /\ ~SegmentsOverlap(encLog[i], encLog[j])

C8_Witness ==
    /\ Len(encLog) = 3
    /\ encLog[1].chunkIndex = Bytes64(0, 0)
    /\ encLog[2].chunkIndex = Bytes64(1, 0)
    /\ encLog[3].chunkIndex = MinusOne64
    /\ \A i \in 1..3 : encLog[i].n > 0

\* n rounded up to a multiple of SegmentSize
RoundUp(n) == ((n + SegmentSize - 1) \div SegmentSize) * SegmentSize

AppendRan == lastOp' = "Append" /\ ops' = ops + 1

C16_AppendStep ==
    AppendRan =>
        /\ Len(Slices') = Len(Slices) + 1
        /\ SubSeq(Slices', 1, Len(Slices)) = Slices
        /\ Slices'[Len(Slices')].Offset = SBLen
        /\ Slices'[Len(Slices')].Length = lastData'.len
        /\ sectorLen' = sectorLen + RoundUp(lastData'.len)

\* no Finish has run since the first of the Appends that Slices() holds
OnlyAppended == \A i \in 1..Len(Slices) : Slices[i].MerkleRoot = ZeroHash

C16_Layout ==
    /\ \A i \in 1..Len(Slices) : Slices[i].Offset % SegmentSize = 0
    /\ OnlyAppended =>
          /\ \A i \in 1..(Len(Slices) - 1) :
                Slices[i + 1].Offset = Slices[i].Offset + RoundUp(Slices[i].Length)
          /\ Len(Slices) > 0 =>
                Slices[Len(Slices)].Offset + RoundUp(Slices[Len(Slices)].Length) = SBLen
          /\ \A i, j \in 1..Len(Slices) :
                i < j => Slices[i].Offset + RoundUp(Slices[i].Length) <= Slices[j].Offset

\* C16: slice layout.  Each successful Append records exactly one slice, at
\* offset Len() before the call and of length len(data), and advances Len() by
\* len(data) rounded up to a multiple of SegmentSize; the slices of Appends
\* since the last Reset are in call order, every offset is a multiple of 64, and
\* the padded regions are contiguous and pairwise disjoint.
C16_SliceLayout == []C16_Layout /\ [][C16_AppendStep]_vars

C16_Witness ==
    /\ lastOp = "Append"
    /\ ops = 2
    /\ Len(Slices) = 2
    /\ Slices[1].Offset = 0 /\ Slices[1].Length = 3
    /\ Slices[2].Offset = 64 /\ Slices[2].Length = 5

\* a fresh builder, Append of empty data, Finish
EmptyAppendThenFinish ==
    /\ ops = 2
    /\ lastOp = "Finish"
    /\ lastData.id = "empty"

\* C17 as stated: appending empty data to a fresh builder and calling Finish
\* yields a full sector and no slices.
C17_EmptyAppendNoSlices ==
    EmptyAppendThenFinish => (FullSector(sector) /\ Slices = <<>>)

\* C17 amended: appending empty data to a fresh builder and calling Finish
\* yields a full sector of random bytes and exactly one slice, of offset 0 and
\* length 0, carrying the hash of the empty data and the sector's Merkle root.
C17_EmptyAppendOneSlice ==
    EmptyAppendThenFinish =>
        /\ FullSector(sector)
        /\ sector = {Extent(0, SectorSize, RandomFill)}
        /\ Slices = <<[Offset |-> 0, Length |-> 0,
                       Checksum |-> [hash |-> "empty"],
                       MerkleRoot |-> SectorMerkleRoot(sector)]>>

C17_Witness ==
    /\ EmptyAppendThenFinish
    /\ Len(Slices) = 1
    /\ SBLen = SectorSize

\* the bytes of buf in [lo, hi)
Region(buf, lo, hi) ==
    {[e EXCEPT !.lo = Max(e.lo, lo), !.hi = Min(e.hi, hi)] :
        e \in {x \in buf : x.lo < hi /\ x.hi > lo}}

Garbage == [id |-> "garbage", len |-> 0]

\* key.DecryptSegments over the bytes of a region that starts at lo, truncated
\* to n bytes: the plaintext comes back only from ciphertext that one
\* EncryptSegments call made with this key and starting index, whole and in place
DecryptAndTruncate(region, lo, hi, key, startIndex, n, inputs) ==
    IF lo = hi THEN [id |-> "empty", len |-> 0]
    ELSE IF \E e \in region :
               /\ region = {e}
               /\ e.lo = lo /\ e.hi = hi /\ e.base = lo
               /\ e.src.kind = "cipher"
               /\ e.src.key = key /\ e.src.start = startIndex
               /\ \E d \in inputs : d.id = e.src.data /\ d.len = n
         THEN LET e == CHOOSE x \in region : TRUE
              IN CHOOSE d \in inputs : d.id = e.src.data
         ELSE Garbage

\* the EncryptSegments call that made slice i of Slices()
CallOf(i) == encLog[Len(encLog) - Len(Slices) + i]

SliceRegion(buf, s) == Region(buf, s.Offset, s.Offset + RoundUp(s.Length))

Decrypted(i) ==
    DecryptAndTruncate(SliceRegion(sector, Slices[i]), Slices[i].Offset,
                       Slices[i].Offset + RoundUp(Slices[i].Length),
                       CallOf(i).key,
                       Mul64(CallOf(i).chunkIndex, SegmentsPerSector),
                       Slices[i].Length, DataInputs)

C18_Decrypts ==
    /\ Len(Slices) <= Len(encLog)
    /\ \A i \in 1..Len(Slices) :
          /\ Decrypted(i) /= Garbage
          /\ HashBytes(Decrypted(i)) = Slices[i].Checksum
    /\ (lastOp = "Append" /\ Len(Slices) > 0) => Decrypted(Len(Slices)) = lastData

C18_RegionKept ==
    (lastOp' /= "Reset") =>
        \A i \in 1..Len(Slices) :
            SliceRegion(sector', Slices[i]) = SliceRegion(sector, Slices[i])

\* C18: checksum round-trip.  For every slice of Slices(), decrypting the
\* sector bytes of its padded region with the key and starting segment index
\* chunkIndex * SegmentsPerSector of its Append and truncating to its Length
\* yields the data that was appended, whose hash is the slice's Checksum; later
\* Appends and Finish leave the bytes of that region as they were.
C18_ChecksumRoundTrip == []C18_Decrypts /\ [][C18_RegionKept]_vars

C18_Witness ==
    /\ lastOp = "Finish"
    /\ Len(Slices) = 2
    /\ Slices[1].Length = 5
    /\ Slices[2].Length = 3
    /\ CallOf(1).chunkIndex = Bytes64(1, 0)
    /\ CallOf(2).chunkIndex = MinusOne64
    /\ Decrypted(1).id = "DEFGH"
    /\ Decrypted(2).id = "ABC"

AnyAppend == lastOp' \in {"Append", "AppendPanic"} /\ ops' = ops + 1

\* C26 as stated: every Append issued between Finish and the next Reset fails
\* and records no slice.
C26_SealedAsStated ==
    [][(sealed /\ AnyAppend) => (lastOp' = "AppendPanic" /\ Slices' = Slices)]_vars

C26_Sealed == sealed => (SBLen = SectorSize /\ Remaining = 0)

C26_SealedStep ==
    (sealed /\ AnyAppend) =>
        /\ lastData'.len > 0 =>
              /\ lastOp' = "AppendPanic"
              /\ UNCHANGED <<sector, sectorLen, slices>>
        /\ lastData'.len = 0 =>
              /\ lastOp' = "Append"
              /\ Slices' = Append(Slices, [Offset |-> SectorSize, Length |-> 0,
                                           Checksum |-> [hash |-> "empty"],
                                           MerkleRoot |-> ZeroHash])
              /\ UNCHANGED <<sector, sectorLen>>

\* C26 amended: between Finish and the next Reset Len() is SectorSize and
\* Remaining() is 0; every Append of non-empty data issued there panics and
\* leaves the buffer, the length and the slices as they were, while an Append
\* of empty data does not panic and records one slice of length 0 at offset
\* SectorSize, with no Merkle root.
C26_SealedForData == []C26_Sealed /\ [][C26_SealedStep]_vars

C26_Witness ==
    /\ sealed
    /\ ops = 3
    /\ lastOp = "Append"
    /\ Len(Slices) = 2
    /\ Slices[1].Length = 3
    /\ Slices[1].MerkleRoot /= ZeroHash
    /\ Slices[2].Offset = SectorSize
    /\ Slices[2].MerkleRoot = ZeroHash

C27_Lengths ==
    /\ Remaining = SectorSize - SBLen
    /\ SBLen % SegmentSize = 0
    /\ 0 <= SBLen /\ SBLen <= SectorSize

C27_AppendStep ==
    AnyAppend => ((lastOp' = "AppendPanic") <=> (lastData'.len > Remaining))

\* C27: Append precondition.  In every state of a SectorBuilder Remaining() is
\* SectorSize - Len() and Len() is a multiple of SegmentSize between 0 and
\* SectorSize, and Append panics exactly when len(data) > Remaining().
C27_AppendPrecondition == []C27_Lengths /\ [][C27_AppendStep]_vars

C27_Witness ==
    /\ ops = 3
    /\ lastOp = "AppendPanic"
    /\ lastData.len = 5
    /\ SBLen = SectorSize
    /\ ~sealed
    /\ Len(Slices) = 2
    /\ Slices[2].Length = 3

(***************************************************************************)
(* A caller that keeps the list Slices() returned.                          *)
(***************************************************************************)
TakeSlices ==
    /\ ~held.taken
    /\ held' = [taken |-> TRUE, val |-> Slices, shared |-> slicesCap > 0,
                reset |-> FALSE]
    /\ UNCHANGED <<sector, sectorLen, slices, encLog, lastOp, lastData, sealed,
                   slicesCap, ops>>
    /\ UNCHANGED <<sessionVars, extVars>>

NextMem ==
    \/ Reset
    \/ SBAppend
    \/ Finish
    \/ TakeSlices

C28_AfterReset ==
    lastOp = "Reset" => (SBLen = 0 /\ Remaining = SectorSize /\ Slices = <<>>)

C28_HeldStep ==
    (held.taken /\ held.reset /\ ops' = ops + 1) => held'.val = held.val

\* C28: Reset.  Right after Reset Len() is 0, Remaining() is SectorSize and
\* Slices() is empty, and a list taken from Slices() before a Reset is not
\* changed by any Append or Finish that runs after that Reset.
C28_Reset == []C28_AfterReset /\ [][C28_HeldStep]_vars

C28_Witness ==
    /\ held.taken
    /\ held.reset
    /\ ops = 3
    /\ lastOp = "Append"
    /\ Len(held.val) = 1
    /\ Len(Slices) = 1
    /\ held.val[1].Length = 3
    /\ Slices[1].Length = 5

(***************************************************************************)
(* ShardUploader.EncryptAndUpload and the shard file it writes to.          *)
(***************************************************************************)
UploadInputs ==
    {[id |-> "ABC",  len |-> 3],
     [id |-> "full", len |-> SectorSize],
     [id |-> "over", len |-> SectorSize + 1]}

\* chunk indices 0, 1 and -1
UploadChunkInputs == {Bytes64(0, 0), Bytes64(1, 0), MinusOne64}

\* chunk indices 0, 1 and 2
ShardReadInputs == {Bytes64(0, 0), Bytes64(1, 0), Bytes64(2, 0)}

\* SectorSlice{}: the all-zero record
ZeroSlice ==
    [Offset |-> 0, Length |-> 0, Checksum |-> ZeroHash, MerkleRoot |-> ZeroHash]

Negative64(x) == x[8] >= 128

\* a non-negative chunk index below 2^16 as a record number
RecordNumber(chunkIndex) == chunkIndex[1] + 256 * chunkIndex[2]

\* the file's records up to and including record n, holes reading as zero
Extended(file, n) ==
    [k \in 1..Max(Len(file), n) |-> IF k <= Len(file) THEN file[k] ELSE ZeroSlice]

\* WriteSlice that writes at the end of the file
WriteSliceAtEnd(file, s, chunkIndex) ==
    IF Negative64(chunkIndex)
    THEN [file |-> file, err |-> "negative offset"]
    ELSE [file |-> Append(file, s), err |-> "nil"]

\* Shard.WriteSlice: seek to chunkIndex * 72 and write the record
WriteSlice(file, s, chunkIndex) ==
    IF Negative64(chunkIndex)
    THEN [file |-> file, err |-> "negative offset"]
    ELSE [file |-> [Extended(file, RecordNumber(chunkIndex) + 1)
                       EXCEPT ![RecordNumber(chunkIndex) + 1] = s],
          err |-> "nil"]

\* Shard.ReadSlice: seek to chunkIndex * 72 and read the record
ReadSlice(file, chunkIndex) ==
    IF RecordNumber(chunkIndex) + 1 <= Len(file)
    THEN file[RecordNumber(chunkIndex) + 1]
    ELSE ZeroSlice

\* the length check of EncryptAndUpload, off by one
ExceedsSectorOrFills(data) == data.len >= SectorSize

\* len(data) > proto.SectorSize
ExceedsSector(data) == data.len > SectorSize

UpReturn(ss, err) == upRes' = [ss |-> ss, err |-> err]

\* EncryptAndUpload writing the shard before it looks at Upload's error
IndexBeforeUpload(uploaded, file, ss, chunkIndex) ==
    LET w == WriteSlice(file, ss, chunkIndex) IN
    IF ~uploaded
    THEN [file |-> w.file, ss |-> ZeroSlice, err |-> "upload failed", wrote |-> FALSE]
    ELSE IF w.err /= "nil"
    THEN [file |-> w.file, ss |-> ZeroSlice, err |-> "could not write to shard file",
          wrote |-> FALSE]
    ELSE [file |-> w.file, ss |-> ss, err |-> "nil", wrote |-> TRUE]

\* EncryptAndUpload from the return of Uploader.Upload on: the shard file, the
\* slice and the error it ends with
IndexAfterUpload(uploaded, file, ss, chunkIndex) ==
    LET w == WriteSlice(file, ss, chunkIndex) IN
    IF ~uploaded
    THEN [file |-> file, ss |-> ZeroSlice, err |-> "upload failed", wrote |-> FALSE]
    ELSE IF w.err /= "nil"
    THEN [file |-> w.file, ss |-> ZeroSlice, err |-> "could not write to shard file",
          wrote |-> FALSE]
    ELSE [file |-> w.file, ss |-> ss, err |-> "nil", wrote |-> TRUE]

\* EncryptAndUpload: Reset, Append and Finish on u.sb, Uploader.Upload, then
\* Shard.WriteSlice of the one slice
EncryptAndUpload ==
    /\ ops < MaxOps
    /\ ops' = ops + 1
    /\ lastOp' = "EncryptAndUpload"
    /\ \E data \in UploadInputs, key \in Keys, chunkIndex \in UploadChunkInputs,
          uploaded \in BOOLEAN :
        /\ upArg' = [data |-> data, chunkIndex |-> chunkIndex]
        /\ IF ExceedsSector(data)
           THEN /\ UpReturn(ZeroSlice, "data exceeds sector size")
                /\ UNCHANGED <<sector, sectorLen, slices, encLog, lastData,
                               sealed, slicesCap, held, shard, shardWrites>>
           ELSE LET padding    == Padding(data.len)
                    padded     == data.len + padding
                    startIndex == StartIndex(chunkIndex)
                    encrypted  == Write(sector, 0, padded,
                                        CipherText(data, padding, key, startIndex))
                    finished   == Write(encrypted, padded, SectorSize, RandomFill)
                    ss         == [RecordSlice(<<>>, 0, data)[1] EXCEPT
                                      !.MerkleRoot = SectorMerkleRoot(finished)]
                    o          == IndexAfterUpload(uploaded, shard, ss, chunkIndex)
                    reset      == ResetSlices(held, slicesCap)
                    appended   == AppendSlices(reset.held, reset.cap, <<>>,
                                               RecordSlice(<<>>, 0, data)[1])
                IN /\ lastData' = data
                   /\ sealed' = TRUE
                   /\ Memory(FinishSlices(appended.held, appended.cap, <<ss>>))
                   /\ sector' = finished
                   /\ sectorLen' = SectorSize
                   /\ slices' = <<ss>>
                   /\ encLog' = Append(encLog,
                                       [key |-> key, chunkIndex |-> chunkIndex,
                                        first |-> startIndex,
                                        n |-> padded \div SegmentSize])
                   /\ UpReturn(o.ss, o.err)
                   /\ shard' = o.file
                   /\ shardWrites' = IF o.wrote THEN shardWrites \cup {chunkIndex}
                                     ELSE shardWrites
    /\ UNCHANGED <<sessionVars, startVars, hsVars, closeVars, clientVars, marshalCall>>

InitUploader ==
    /\ shard = <<>>
    /\ shardWrites = {}
    /\ upArg = [data |-> NoData, chunkIndex |-> Bytes64(0, 0)]
    /\ upRes = [ss |-> ZeroSlice, err |-> "unset"]

NextUp ==
    \/ ops < MaxUpOps /\ Reset
    \/ ops < MaxUpOps /\ SBAppend
    \/ ops < MaxUpOps /\ Finish
    \/ ops < MaxUpOps /\ EncryptAndUpload

(***************************************************************************)
(* Properties of the ShardUploader.                                         *)
(***************************************************************************)
AppendCalled == lastOp' \in {"Append", "AppendPanic"} /\ ops' = ops + 1

UploadCalled == lastOp' = "EncryptAndUpload" /\ ops' = ops + 1

C15_AppendStep ==
    AppendCalled =>
        /\ (lastOp' = "AppendPanic") <=> (SBLen + RoundUp(lastData'.len) > SectorSize)
        /\ lastData'.len = SectorSize + 1 => lastOp' = "AppendPanic"
        /\ lastOp' = "AppendPanic" => UNCHANGED <<sector, sectorLen, slices, encLog>>

C15_UploadStep ==
    UploadCalled =>
        /\ (upRes'.err = "data exceeds sector size") <=> (upArg'.data.len > SectorSize)
        /\ upArg'.data.len > SectorSize =>
              /\ upRes'.ss = ZeroSlice
              /\ UNCHANGED <<sector, sectorLen, slices, encLog, lastData, shard>>

\* C15: Append overflow.  Append panics exactly when Len() plus len(data)
\* rounded up to a multiple of SegmentSize exceeds SectorSize, so for any
\* append of SectorSize + 1 bytes, and a panicking Append leaves the length,
\* the buffer and the slices as they were; EncryptAndUpload returns the error
\* "data exceeds sector size" exactly for data longer than SectorSize, and then
\* leaves its builder and the shard untouched.
C15_AppendOverflow == [][C15_AppendStep /\ C15_UploadStep]_vars

C15_Witness ==
    /\ ops = 2
    /\ lastOp = "EncryptAndUpload"
    /\ upRes.err = "data exceeds sector size"
    /\ lastData.len = SectorSize + 1
    /\ sectorLen = 0
    /\ slices = <<>>

C19_Records ==
    /\ \A j \in ShardReadInputs \ shardWrites : ReadSlice(shard, j) = ZeroSlice
    /\ (lastOp = "EncryptAndUpload" /\ upRes.err = "nil") =>
          ReadSlice(shard, upArg.chunkIndex) = upRes.ss

C19_WriteStep ==
    \A j \in ShardReadInputs :
        \/ ReadSlice(shard', j) = ReadSlice(shard, j)
        \/ /\ UploadCalled
           /\ upRes'.err = "nil"
           /\ j = upArg'.chunkIndex
           /\ ReadSlice(shard', j) = upRes'.ss

\* C19: shard index addressability.  After WriteSlice(s, i), ReadSlice(i)
\* returns s whatever was written to other indices in between; ReadSlice of an
\* index never written returns the all-zero slice; writing index i again leaves
\* the value written last and changes no other record.
C19_ShardAddressability == []C19_Records /\ [][C19_WriteStep]_vars

C19_Witness ==
    /\ ops = 2
    /\ lastOp = "EncryptAndUpload"
    /\ upRes.err = "nil"
    /\ upArg.chunkIndex = Bytes64(0, 0)
    /\ Len(shard) = 2
    /\ ReadSlice(shard, Bytes64(1, 0)).Length = SectorSize
    /\ ReadSlice(shard, Bytes64(0, 0)).Length = 3
    /\ ReadSlice(shard, Bytes64(2, 0)) = ZeroSlice

C30_UploadStep ==
    UploadCalled =>
        /\ upRes'.err = "upload failed" => (shard' = shard /\ upRes'.ss = ZeroSlice)
        /\ shard' /= shard => upRes'.err = "nil"
        /\ upRes'.err = "nil" =>
              /\ upRes'.ss.Offset = 0
              /\ upRes'.ss.Length = upArg'.data.len
              /\ upRes'.ss.MerkleRoot = SectorMerkleRoot(sector')
              /\ FullSector(sector')
              /\ ReadSlice(shard', upArg'.chunkIndex) = upRes'.ss

\* C30: upload-then-index ordering.  EncryptAndUpload writes the slice to the
\* shard at chunkIndex only after Upload of the finished sector succeeded; when
\* Upload fails the shard is left as it was and the empty slice is returned;
\* on success the returned slice has offset 0, length len(data) and the Merkle
\* root of the sector that was uploaded.
C30_UploadThenIndex == [][C30_UploadStep]_vars

C30_Witness ==
    /\ ops = 2
    /\ lastOp = "EncryptAndUpload"
    /\ upRes.err = "upload failed"
    /\ upArg.chunkIndex = Bytes64(1, 0)
    /\ Len(shard) = 1
    /\ shard[1].Length = 3
    /\ shard[1].MerkleRoot /= SectorMerkleRoot(sector)

(***************************************************************************)
(* Teardown: terminateRPC and ShardUploader.Close.                          *)
(***************************************************************************)
\* terminateRPC that returns the error of a failed stop write
terminateRPCReturnsStopError(c, readOk, writeOk) ==
    [log |-> <<Event("read", "settings", IF c = "open" /\ readOk THEN "ok" ELSE "failed"),
               Event("write", "stop", IF c = "open" /\ writeOk THEN "ok" ELSE "failed"),
               Event("close", "conn", IF c = "open" THEN "ok" ELSE "failed")>>,
     conn |-> "closed",
     err |-> IF c = "open" /\ writeOk THEN "nil"
             ELSE IF c = "open" THEN "could not write stop"
             ELSE "use of closed network connection"]

\* terminateRPC on a conn in state c: the settings read and the stop write may
\* each fail, nothing is read or written on a closed conn, and Close of a
\* closed conn returns an error
terminateRPC(c, readOk, writeOk) ==
    [log |-> <<Event("read", "settings", IF c = "open" /\ readOk THEN "ok" ELSE "failed"),
               Event("write", "stop", IF c = "open" /\ writeOk THEN "ok" ELSE "failed"),
               Event("close", "conn", IF c = "open" THEN "ok" ELSE "failed")>>,
     conn |-> "closed",
     err |-> IF c = "open" THEN "nil" ELSE "use of closed network connection"]

Teardown(fn, t, err) ==
    /\ Len(tcalls) < MaxCloses
    /\ tconn' = t.conn
    /\ tlog' = tlog \o t.log
    /\ tcalls' = Append(tcalls, [fn |-> fn, err |-> err, wrote |-> t.log[2].outcome = "ok"])
    /\ UNCHANGED <<sessionVars, sbVars, startVars, hsVars, upVars, clientVars, marshalCall>>

\* terminateRPC(conn, host), as the session's Close runs it
TerminateRPC ==
    \E readOk, writeOk \in BOOLEAN :
        LET t == terminateRPC(tconn, readOk, writeOk)
        IN /\ Teardown("terminateRPC", t, t.err)
           /\ UNCHANGED shardOpen

\* ShardUploader.Close: u.Uploader.Close(), u.Shard.Close(), return nil
ShardUploaderClose ==
    \E readOk, writeOk \in BOOLEAN :
        LET t == terminateRPC(tconn, readOk, writeOk)
        IN /\ Teardown("ShardUploader.Close", t, "nil")
           /\ shardOpen' = FALSE

InitCloseIdle ==
    /\ tconn = "open"
    /\ shardOpen = TRUE
    /\ tlog = <<>>
    /\ tcalls = <<>>

NextClose ==
    \/ TerminateRPC
    \/ ShardUploaderClose

\* the three steps of the k-th teardown call
StepsOf(k) == SubSeq(tlog, 3 * k - 2, 3 * k)

\* C25: best-effort teardown.  Every terminateRPC attempts, in order, the
\* settings read, the NegotiationStop write and the close of conn, whatever the
\* read and the write did, and it returns an error only when the close failed.
C25_BestEffortTeardown ==
    /\ Len(tlog) = 3 * Len(tcalls)
    /\ \A k \in 1..Len(tcalls) :
          /\ StepsOf(k)[1].op = "read" /\ StepsOf(k)[1].what = "settings"
          /\ StepsOf(k)[2].op = "write" /\ StepsOf(k)[2].what = "stop"
          /\ StepsOf(k)[3].op = "close" /\ StepsOf(k)[3].what = "conn"
          /\ tcalls[k].fn = "terminateRPC" =>
                (tcalls[k].err /= "nil" <=> StepsOf(k)[3].outcome = "failed")
    /\ Len(tcalls) > 0 => tconn = "closed"

C25_Witness ==
    /\ Len(tcalls) = 2
    /\ tcalls[1].fn = "terminateRPC"
    /\ tcalls[2].fn = "terminateRPC"
    /\ StepsOf(1)[1].outcome = "failed"
    /\ StepsOf(1)[2].outcome = "failed"
    /\ StepsOf(1)[3].outcome = "ok"
    /\ tcalls[1].err = "nil"
    /\ tcalls[2].err /= "nil"

\* C20 as stated: a teardown run again on an already closed session writes
\* nothing further to the host and reports the same clean result as the first.
C20_IdempotentStop ==
    \A i \in 2..Len(tcalls) :
        /\ ~tcalls[i].wrote
        /\ tcalls[1].err = "nil" => tcalls[i].err = "nil"

(***************************************************************************)
(* startRevision and verifySettings: the settings re-exchange.              *)
(***************************************************************************)
ScannedHost(pk, addr, up, down, storage) ==
    [PublicKey |-> pk, NetAddress |-> addr, UploadBandwidthPrice |-> up,
     DownloadBandwidthPrice |-> down, StoragePrice |-> storage]

\* what crypto.ReadSignedObject can deliver: a failure (read error, object too
\* long, bad signature) or settings signed by the host's key
ReceivedSettings ==
    {[failed |-> TRUE]} \cup
    {[failed |-> FALSE, NetAddress |-> addr, UploadBandwidthPrice |-> up,
      DownloadBandwidthPrice |-> down, StoragePrice |-> storage] :
        addr \in {"dialed", "announced"},
        up \in 0..MaxPrice, down \in 0..MaxPrice, storage \in 0..MaxPrice}

\* verifySettings that takes the NetAddress the host announced
verifySettingsAnnounced(recv, h) ==
    IF recv.failed
    THEN [host |-> h, err |-> "could not read signed host settings"]
    ELSE [host |-> ScannedHost(h.PublicKey, recv.NetAddress,
                               recv.UploadBandwidthPrice,
                               recv.DownloadBandwidthPrice,
                               recv.StoragePrice),
          err |-> "nil"]

\* verifySettings: [host, err]
verifySettings(recv, h) ==
    IF recv.failed
    THEN [host |-> h, err |-> "could not read signed host settings"]
    ELSE [host |-> ScannedHost(h.PublicKey,
                               IF recv.NetAddress /= h.NetAddress
                               THEN h.NetAddress ELSE recv.NetAddress,
                               recv.UploadBandwidthPrice,
                               recv.DownloadBandwidthPrice,
                               recv.StoragePrice),
          err |-> "nil"]

\* the price checks of startRevision that leave out the storage price
PriceErrorNoStorage(newhost, h) ==
    IF newhost.UploadBandwidthPrice > h.UploadBandwidthPrice
    THEN "host upload price increased"
    ELSE IF newhost.DownloadBandwidthPrice > h.DownloadBandwidthPrice
    THEN "host download price increased"
    ELSE "nil"

\* the price checks of startRevision: the error returned, or nil
PriceError(newhost, h) ==
    IF newhost.UploadBandwidthPrice > h.UploadBandwidthPrice
    THEN "host upload price increased"
    ELSE IF newhost.DownloadBandwidthPrice > h.DownloadBandwidthPrice
    THEN "host download price increased"
    ELSE IF newhost.StoragePrice > h.StoragePrice
    THEN "host storage price increased"
    ELSE "nil"

PriceErrors ==
    {"host upload price increased", "host download price increased",
     "host storage price increased"}

\* startRevision up to its write: read and verify the settings, compare the
\* prices, update the cache
StartRevisionRead ==
    /\ spc \in {"idle", "returned"}
    /\ starts < MaxStarts
    /\ starts' = starts + 1
    /\ hostBefore' = host
    /\ sconn' = <<>>
    /\ \E recv \in ReceivedSettings :
        LET v == verifySettings(recv, host) IN
        /\ recvSettings' = recv
        /\ IF v.err /= "nil"
           THEN sres' = v.err /\ spc' = "returned" /\ UNCHANGED host
           ELSE IF PriceError(v.host, host) /= "nil"
           THEN sres' = PriceError(v.host, host) /\ spc' = "returned"
                /\ UNCHANGED host
           ELSE host' = v.host /\ spc' = "writeAcceptance" /\ sres' = "unset"
    /\ UNCHANGED <<hostStart, sessionVars, sbVars, hsVars, upVars, closeVars, clientVars, marshalCall>>

\* return modules.WriteNegotiationAcceptance(conn)
StartRevisionWrite ==
    /\ spc = "writeAcceptance"
    /\ \E ok \in BOOLEAN :
        /\ sconn' = Append(sconn, Event("write", "acceptance",
                                        IF ok THEN "ok" ELSE "failed"))
        /\ sres' = IF ok THEN "nil" ELSE "could not write acceptance"
    /\ spc' = "returned"
    /\ UNCHANGED <<host, hostStart, hostBefore, recvSettings, starts,
                   sessionVars, sbVars, hsVars, upVars, closeVars, clientVars, marshalCall>>

InitStartIdle ==
    /\ host = ScannedHost("hostkey", "dialed", MaxPrice, MaxPrice, MaxPrice)
    /\ hostStart = host
    /\ hostBefore = host
    /\ recvSettings = [failed |-> TRUE]
    /\ spc = "idle"
    /\ sconn = <<>>
    /\ sres = "unset"
    /\ starts = 0

InitStart ==
    /\ \E up \in 0..MaxPrice, down \in 0..MaxPrice, storage \in 0..MaxPrice :
          host = ScannedHost("hostkey", "dialed", up, down, storage)
    /\ hostStart = host
    /\ hostBefore = host
    /\ recvSettings = [failed |-> TRUE]
    /\ spc = "idle"
    /\ sconn = <<>>
    /\ sres = "unset"
    /\ starts = 0

NextStart ==
    \/ StartRevisionRead
    \/ StartRevisionWrite

(***************************************************************************)
(* Properties of the settings re-exchange.                                  *)
(***************************************************************************)
ReadFailed == recvSettings.failed

SomePriceRose ==
    /\ ~recvSettings.failed
    /\ \/ recvSettings.UploadBandwidthPrice > hostBefore.UploadBandwidthPrice
       \/ recvSettings.DownloadBandwidthPrice > hostBefore.DownloadBandwidthPrice
       \/ recvSettings.StoragePrice > hostBefore.StoragePrice

AcceptanceWritten ==
    \E i \in 1..Len(sconn) : sconn[i].op = "write" /\ sconn[i].what = "acceptance"

CacheReplaced ==
    /\ host.PublicKey = hostBefore.PublicKey
    /\ host.NetAddress = hostBefore.NetAddress
    /\ host.UploadBandwidthPrice = recvSettings.UploadBandwidthPrice
    /\ host.DownloadBandwidthPrice = recvSettings.DownloadBandwidthPrice
    /\ host.StoragePrice = recvSettings.StoragePrice

\* C11 as stated: startRevision fails if and only if the settings read failed
\* or a received price strictly exceeds the cached one; on failure the cache is
\* unchanged and no Acceptance is written; on success the cache is replaced
\* and Acceptance is written.
C11_GateAsStated ==
    spc = "returned" =>
        /\ sres /= "nil" <=> (ReadFailed \/ SomePriceRose)
        /\ sres /= "nil" => (host = hostBefore /\ ~AcceptanceWritten)
        /\ sres = "nil" => (CacheReplaced /\ AcceptanceWritten)

\* C11 amended: startRevision fails if and only if the settings read failed, a
\* received price strictly exceeds the cached one, or the write of Acceptance
\* failed.  After a failed read or a price increase the cache is unchanged and
\* nothing is written; otherwise the cache is replaced by the new settings and
\* the Acceptance write is made, also when that write then fails.
C11_PriceGate ==
    spc = "returned" =>
        /\ (ReadFailed \/ SomePriceRose) =>
              /\ sres /= "nil"
              /\ host = hostBefore
              /\ sconn = <<>>
        /\ ~(ReadFailed \/ SomePriceRose) =>
              /\ CacheReplaced
              /\ Len(sconn) = 1
              /\ sconn[1].op = "write" /\ sconn[1].what = "acceptance"
              /\ sres = "nil" <=> sconn[1].outcome = "ok"
        /\ ReadFailed => sres = "could not read signed host settings"
        /\ SomePriceRose => sres \in PriceErrors

C11_Witness ==
    /\ spc = "returned"
    /\ starts = 2
    /\ sres = "host storage price increased"
    /\ hostBefore /= hostStart
    /\ host = hostBefore

\* C12 as stated: when the settings re-exchange detects a price increase, the
\* renter has written a negotiation-stop to the host by the time the iteration
\* returns the price-increase failure.
C12_StopBeforePriceFailure ==
    (spc = "returned" /\ sres \in PriceErrors) =>
        \E i \in 1..Len(sconn) : sconn[i].op = "write" /\ sconn[i].what = "stop"

\* C33: cached prices never rise.  After any sequence of startRevision calls
\* of a session, succeeding or failing, each of the cached upload-bandwidth,
\* download-bandwidth and storage prices is at most its value at session
\* start, and the cached public key and network address are those of the
\* session start.
C33_CachedPricesNeverRise ==
    /\ host.UploadBandwidthPrice <= hostStart.UploadBandwidthPrice
    /\ host.DownloadBandwidthPrice <= hostStart.DownloadBandwidthPrice
    /\ host.StoragePrice <= hostStart.StoragePrice
    /\ host.PublicKey = hostStart.PublicKey
    /\ host.NetAddress = hostStart.NetAddress

C33_Witness ==
    /\ starts = 2
    /\ spc = "returned"
    /\ sres = "host upload price increased"
    /\ ~recvSettings.failed
    /\ recvSettings.NetAddress = "announced"
    /\ host.UploadBandwidthPrice < hostStart.UploadBandwidthPrice
    /\ host.StoragePrice < hostStart.StoragePrice
    /\ host.NetAddress = "dialed"

(***************************************************************************)
(* initiateRPC and verifyRecentRevision: the handshake, and the contract    *)
(* store it synchronizes.                                                   *)
(***************************************************************************)
StoredContract(n, uh, sigs) ==
    [rev |-> [NewRevisionNumber |-> n, UnlockHash |-> uh], sigs |-> sigs]

NoHostRevision == [none |-> TRUE]

\* what the host may present: a revision, and whether its signatures verify
HostRevisions ==
    {[NewRevisionNumber |-> n, UnlockHash |-> uh, sigsValid |-> v] :
        n \in 0..MaxRevNum, uh \in {"uc-hash", "other-hash"}, v \in BOOLEAN}

\* the reads and writes of verifyRecentRevision, in order
VerifySteps ==
    <<Event("write", "contract ID", "ok"), Event("read", "challenge", "ok"),
      Event("write", "challenge response", "ok"), Event("read", "acceptance", "ok"),
      Event("read", "host revision", "ok"), Event("read", "host signatures", "ok")>>

FailedStep(k) == [VerifySteps[k] EXCEPT !.outcome = "failed"]

\* modules.VerifyFileContractRevisionTransactionSignatures at EndHeight - 1
SignaturesVerify(hostRev, height) == height >= 0 /\ hostRev.sigsValid

\* the unlock-hash comparison of verifyRecentRevision, left out
UnlockHashesIgnored(hostRev, current) == TRUE

\* hostRevision.UnlockConditions.UnlockHash() ==
\*     contract.CurrentRevision().UnlockConditions.UnlockHash()
UnlockHashesMatch(hostRev, current) == hostRev.UnlockHash = current.UnlockHash

\* SyncWithHost that overwrites whatever it is given
SyncWithHostNoGate(st, hostRev, hostSigs) ==
    [stored |-> StoredContract(hostRev.NewRevisionNumber, hostRev.UnlockHash, hostSigs),
     err |-> "nil"]

\* the contract store's SyncWithHost: [stored, err]
SyncWithHost(st, hostRev, hostSigs) ==
    IF /\ hostRev.NewRevisionNumber >= st.rev.NewRevisionNumber
       /\ hostRev.UnlockHash = st.rev.UnlockHash
    THEN [stored |-> StoredContract(hostRev.NewRevisionNumber, hostRev.UnlockHash,
                                    hostSigs),
          err |-> "nil"]
    ELSE [stored |-> st, err |-> "ContractDesync"]

EndHeight == 200

HSReturn(conn, err) ==
    /\ hres' = [conn |-> conn, err |-> err]
    /\ hpc' = "returned"

\* a failure path that returns without conn.Close()
HSReturnLeavingOpen(err) ==
    /\ UNCHANGED <<hconn, closes>>
    /\ HSReturn("nil", err)

HSCloseAndReturn(err) ==
    /\ hconn' = "closed"
    /\ closes' = closes + 1
    /\ HSReturn("nil", err)

\* net.DialTimeout
Dial ==
    /\ hpc \in {"idle", "returned"}
    /\ sessions < MaxSessions
    /\ sessions' = sessions + 1
    /\ storedBefore' = stored
    /\ hlog' = <<>>
    /\ hostRevision' = NoHostRevision
    /\ closes' = 0
    /\ \E ok \in BOOLEAN :
        IF ok
        THEN hconn' = "open" /\ hpc' = "writeRPC" /\ hres' = [conn |-> "nil", err |-> "unset"]
        ELSE hconn' = "none" /\ HSReturn("nil", "could not dial host")
    /\ UNCHANGED <<stored, syncCalls, sessionVars, sbVars, startVars, upVars, closeVars, clientVars, marshalCall>>

\* encoding.WriteObject(conn, rpc)
WriteSpecifier ==
    /\ hpc = "writeRPC"
    /\ \E ok \in BOOLEAN :
        /\ hlog' = Append(hlog, Event("write", "specifier", IF ok THEN "ok" ELSE "failed"))
        /\ IF ok
           THEN hpc' = "verify" /\ UNCHANGED <<hconn, closes, hres>>
           ELSE HSCloseAndReturn("could not initiate RPC")
    /\ UNCHANGED <<stored, storedBefore, hostRevision, syncCalls, sessions,
                   sessionVars, sbVars, startVars, upVars, closeVars, clientVars, marshalCall>>

\* verifyRecentRevision(conn, contract.Transaction()) and the branch on its error
VerifyRecentRevision ==
    /\ hpc = "verify"
    /\ \/ \E k \in 1..Len(VerifySteps) :
            \* the k-th read or write fails
            /\ hlog' = hlog \o SubSeq(VerifySteps, 1, k - 1) \o <<FailedStep(k)>>
            /\ HSCloseAndReturn("could not verify most recent contract revision")
            /\ UNCHANGED hostRevision
       \/ \E hostRev \in HostRevisions :
            /\ hlog' = hlog \o VerifySteps
            /\ IF /\ SignaturesVerify(hostRev, EndHeight - 1)
                  /\ UnlockHashesMatch(hostRev, stored.rev)
               THEN /\ hostRevision' = hostRev
                    /\ hpc' = "sync"
                    /\ UNCHANGED <<hconn, closes, hres>>
               ELSE /\ hostRevision' = hostRev
                    /\ HSCloseAndReturn("could not verify most recent contract revision")
    /\ UNCHANGED <<stored, storedBefore, syncCalls, sessions,
                   sessionVars, sbVars, startVars, upVars, closeVars, clientVars, marshalCall>>

\* contract.SyncWithHost(hostRev, hostSigs) and the branch on its error
Synchronize ==
    /\ hpc = "sync"
    /\ LET r == SyncWithHost(stored, hostRevision, "host sigs") IN
        /\ stored' = r.stored
        /\ syncCalls' = Append(syncCalls,
                               [hostRev |-> hostRevision, before |-> stored,
                                after |-> r.stored, err |-> r.err])
        /\ IF r.err /= "nil"
           THEN HSCloseAndReturn("could not synchronize contract with host")
           ELSE HSReturn("open", "nil") /\ UNCHANGED <<hconn, closes>>
    /\ UNCHANGED <<storedBefore, hlog, hostRevision, sessions,
                   sessionVars, sbVars, startVars, upVars, closeVars, clientVars, marshalCall>>

\* an iteration of the opened session commits the next revision
SessionRevises ==
    /\ hpc = "returned"
    /\ hres.err = "nil"
    /\ stored.rev.NewRevisionNumber < MaxRevNum
    /\ stored' = StoredContract(stored.rev.NewRevisionNumber + 1,
                                stored.rev.UnlockHash, "negotiated sigs")
    /\ UNCHANGED <<storedBefore, hpc, hconn, closes, hlog, hostRevision, hres,
                   syncCalls, sessions, sessionVars, sbVars, startVars, upVars, closeVars, clientVars, marshalCall>>

InitHSIdle ==
    /\ stored = StoredContract(1, "uc-hash", "formation sigs")
    /\ storedBefore = stored
    /\ hpc = "idle"
    /\ hconn = "none"
    /\ closes = 0
    /\ hlog = <<>>
    /\ hostRevision = NoHostRevision
    /\ hres = [conn |-> "nil", err |-> "unset"]
    /\ syncCalls = <<>>
    /\ sessions = 0

InitHS ==
    /\ \E n \in 1..2 : stored = StoredContract(n, "uc-hash", "formation sigs")
    /\ storedBefore = stored
    /\ hpc = "idle"
    /\ hconn = "none"
    /\ closes = 0
    /\ hlog = <<>>
    /\ hostRevision = NoHostRevision
    /\ hres = [conn |-> "nil", err |-> "unset"]
    /\ syncCalls = <<>>
    /\ sessions = 0

NextHS ==
    \/ Dial
    \/ WriteSpecifier
    \/ VerifyRecentRevision
    \/ Synchronize
    \/ SessionRevises

(***************************************************************************)
(* Properties of the handshake.                                             *)
(***************************************************************************)
\* C13: handshake validation before sync.  Every SyncWithHost call is made
\* with a host revision whose signatures verified and whose unlock hash equals
\* that of the contract's current revision, after all six reads and writes of
\* verifyRecentRevision; a handshake that fails before the sync returns no
\* connection and leaves the stored contract as it was.
C13_ValidationBeforeSync ==
    /\ \A i \in 1..Len(syncCalls) :
          /\ syncCalls[i].hostRev.sigsValid
          /\ syncCalls[i].hostRev.UnlockHash = syncCalls[i].before.rev.UnlockHash
    /\ hpc = "sync" =>
          /\ hostRevision.sigsValid
          /\ hostRevision.UnlockHash = stored.rev.UnlockHash
          /\ SubSeq(hlog, 2, Len(hlog)) = VerifySteps
    /\ (hpc = "returned" /\ hres.err \in {"could not dial host", "could not initiate RPC",
                                          "could not verify most recent contract revision"}) =>
          /\ stored = storedBefore
          /\ hres.conn = "nil"
    /\ (hpc = "returned" /\ hostRevision /= NoHostRevision
          /\ hostRevision.UnlockHash /= storedBefore.rev.UnlockHash) =>
          /\ hres.err = "could not verify most recent contract revision"
          /\ stored = storedBefore

C13_Witness ==
    /\ hpc = "returned"
    /\ hostRevision /= NoHostRevision
    /\ hostRevision.sigsValid
    /\ hostRevision.UnlockHash = "other-hash"
    /\ sessions = 2
    /\ Len(syncCalls) = 1

C14_Gate ==
    /\ \A i \in 1..Len(syncCalls) :
          LET c == syncCalls[i]
              pass == /\ c.hostRev.NewRevisionNumber >= c.before.rev.NewRevisionNumber
                      /\ c.hostRev.UnlockHash = c.before.rev.UnlockHash
          IN /\ pass => /\ c.err = "nil"
                        /\ c.after.rev.NewRevisionNumber = c.hostRev.NewRevisionNumber
                        /\ c.after.sigs = "host sigs"
             /\ ~pass => c.err = "ContractDesync" /\ c.after = c.before
    /\ \A hostRev \in HostRevisions :
          LET r    == SyncWithHost(stored, hostRev, "host sigs")
              pass == /\ hostRev.NewRevisionNumber >= stored.rev.NewRevisionNumber
                      /\ hostRev.UnlockHash = stored.rev.UnlockHash
          IN /\ pass => /\ r.err = "nil"
                        /\ r.stored.rev.NewRevisionNumber = hostRev.NewRevisionNumber
                        /\ r.stored.sigs = "host sigs"
             /\ ~pass => r.err = "ContractDesync" /\ r.stored = stored

C14_NeverRegresses ==
    stored'.rev.NewRevisionNumber >= stored.rev.NewRevisionNumber

\* C14: sync gate.  SyncWithHost overwrites the stored revision and signatures
\* if and only if the revision number is at least the stored one and the unlock
\* hashes are equal, and otherwise fails with ContractDesync leaving the store
\* unchanged; over any sequence of sessions the stored revision number never
\* decreases.
C14_SyncGate == []C14_Gate /\ [][C14_NeverRegresses]_vars

C14_Witness ==
    /\ Len(syncCalls) = 2
    /\ syncCalls[1].err = "nil"
    /\ syncCalls[1].after.rev.NewRevisionNumber > syncCalls[1].before.rev.NewRevisionNumber
    /\ syncCalls[2].err = "ContractDesync"
    /\ stored = syncCalls[2].before

\* the outcomes of the three steps of the last initiateRPC after its dial
SpecifierWritten == Len(hlog) >= 1 /\ hlog[1] = Event("write", "specifier", "ok")

RevisionVerified ==
    /\ SubSeq(hlog, 2, Len(hlog)) = VerifySteps
    /\ hostRevision /= NoHostRevision
    /\ hostRevision.sigsValid
    /\ hostRevision.UnlockHash = storedBefore.rev.UnlockHash

Synchronized ==
    /\ hostRevision /= NoHostRevision
    /\ SyncWithHost(storedBefore, hostRevision, "host sigs").err = "nil"

\* C32: handshake connection ownership.  initiateRPC returns a connection if
\* and only if the specifier write, the recent-revision verification and
\* SyncWithHost all succeeded; on every failure after a successful dial the
\* connection has been closed exactly once when the error is returned, and
\* it is never closed on the way to a success.
C32_ConnectionOwnership ==
    /\ hpc \in {"writeRPC", "verify", "sync"} => (hconn = "open" /\ closes = 0)
    /\ hpc = "returned" =>
          LET dialed == hres.err /= "could not dial host" IN
          /\ hres.conn /= "nil" <=>
                (dialed /\ SpecifierWritten /\ RevisionVerified /\ Synchronized)
          /\ hres.conn /= "nil" <=> hres.err = "nil"
          /\ hres.conn /= "nil" => (hconn = "open" /\ closes = 0)
          /\ (dialed /\ hres.conn = "nil") => (hconn = "closed" /\ closes = 1)
          /\ ~dialed => (hconn = "none" /\ closes = 0)

C32_Witness ==
    /\ hpc = "returned"
    /\ sessions = 2
    /\ hres.err = "could not synchronize contract with host"
    /\ SpecifierWritten
    /\ RevisionVerified
    /\ hconn = "closed"
    /\ closes = 1

InitSessionIdle ==
    /\ contract = InitialRevision(1, MaxFunds, MaxHostFunds, MaxHostFunds, 0)
    /\ rev = NoRev
    /\ args = NoArgs
    /\ pc = "idle"
    /\ wire = <<>>
    /\ responseErr = "nil"
    /\ hostSig = "none"
    /\ result = NoResult
    /\ signedTxn = NoTxn
    /\ committed = <<>>
    /\ iters = 0


(***************************************************************************)
(* The clients of renterutil (client.go).  Strings that are compared by     *)
(* prefix are sequences of characters.                                      *)
(***************************************************************************)
\* "ed25519:"
Scheme == <<"e", "d", "2", "5", "5", "1", "9", ":">>

\* strings.HasPrefix
HasPrefix(str, prefix) ==
    /\ Len(prefix) <= Len(str)
    /\ SubSeq(str, 1, Len(prefix)) = prefix

\* the public keys of the hosts siad may know
HostKeys == {Scheme \o <<"a", "b">>, Scheme \o <<"a", "c">>, Scheme \o <<"b", "a">>}

\* hdag.Hosts: the hostdb holds one entry for each public key
Directories ==
    {d \in UNION {[1..n -> HostKeys] : n \in 0..Cardinality(HostKeys)} :
        \A i, j \in 1..Len(d) : d[i] = d[j] => i = j}

\* the prefixes a caller passes
Prefixes ==
    {<<>>, <<"a">>, <<"b">>, <<"c">>, <<"a", "b">>, <<"a", "b", "0">>, <<"e", "d">>,
     Scheme, Scheme \o <<"a">>, Scheme \o <<"a", "c">>}

NormalisePrefix(prefix) ==
    IF ~HasPrefix(prefix, Scheme) THEN Scheme \o prefix ELSE prefix

LookupResult(hpk, err) == [hpk |-> hpk, err |-> err]

\* a lookup that stops at the first host key with the prefix
LookupHostFirstMatch(hosts, fetched, prefix) ==
    LET p == NormalisePrefix(prefix)
        found == {i \in 1..Len(hosts) : HasPrefix(hosts[i], p)}
    IN IF ~fetched THEN LookupResult(<<>>, "hostdb unreachable")
       ELSE IF found = {} THEN LookupResult(<<>>, "no host with that pubkey")
       ELSE LookupResult(hosts[CHOOSE i \in found : \A j \in found : i <= j], "nil")

\* the loop of LookupHost from entry i on, with hpk as found so far
RECURSIVE ScanHosts(_, _, _, _)
ScanHosts(hosts, i, prefix, hpk) ==
    IF i > Len(hosts)
    THEN IF hpk = <<>> THEN LookupResult(<<>>, "no host with that pubkey")
         ELSE LookupResult(hpk, "nil")
    ELSE IF HasPrefix(hosts[i], prefix)
         THEN IF hpk /= <<>> THEN LookupResult(<<>>, "ambiguous pubkey")
              ELSE ScanHosts(hosts, i + 1, prefix, hosts[i])
         ELSE ScanHosts(hosts, i + 1, prefix, hpk)

\* SiadClient.LookupHost; fetched is whether HostDbAllGet succeeded
LookupHost(hosts, fetched, prefix) ==
    IF ~fetched THEN LookupResult(<<>>, "hostdb unreachable")
    ELSE ScanHosts(hosts, 1, NormalisePrefix(prefix), <<>>)

NoSiadCall == [hosts |-> <<>>, fetched |-> FALSE, prefix |-> <<>>, called |-> FALSE,
               res |-> LookupResult(<<>>, "nil")]

SiadLookupHost ==
    /\ \E hosts \in Directories, fetched \in BOOLEAN, prefix \in Prefixes :
          siadCall' = [hosts |-> hosts, fetched |-> fetched, prefix |-> prefix,
                       called |-> TRUE, res |-> LookupHost(hosts, fetched, prefix)]
    /\ UNCHANGED <<shardCall, walrusCall>>
    /\ UNCHANGED <<sessionVars, sbVars, startVars, hsVars, upVars, closeVars, marshalCall>>

\* the host keys of the directory that start with the normalised prefix
Matching(hosts, prefix) ==
    {i \in 1..Len(hosts) : HasPrefix(hosts[i], NormalisePrefix(prefix))}

\* C21: prefix lookup.  When the directory was fetched, LookupHost normalises
\* the prefix to start with "ed25519:" and returns the one host key with that
\* prefix, fails with "ambiguous pubkey" when more than one key has it and
\* with "no host with that pubkey" when none has; it returns no key when
\* several match.
C21_PrefixLookup ==
    (siadCall.called /\ siadCall.fetched) =>
        LET found == Matching(siadCall.hosts, siadCall.prefix) IN
        /\ HasPrefix(NormalisePrefix(siadCall.prefix), Scheme)
        /\ siadCall.prefix \in {Scheme \o <<"a">>, <<"a">>} =>
              NormalisePrefix(siadCall.prefix) = Scheme \o <<"a">>
        /\ Cardinality(found) = 1 =>
              /\ siadCall.res.err = "nil"
              /\ \E i \in found : siadCall.res.hpk = siadCall.hosts[i]
        /\ Cardinality(found) > 1 =>
              siadCall.res = LookupResult(<<>>, "ambiguous pubkey")
        /\ Cardinality(found) = 0 =>
              siadCall.res = LookupResult(<<>>, "no host with that pubkey")

C21_Witness ==
    /\ siadCall.called
    /\ siadCall.fetched
    /\ siadCall.prefix = <<"a">>
    /\ Len(siadCall.hosts) = 3
    /\ siadCall.hosts[1] = Scheme \o <<"a", "b">>
    /\ Cardinality(Matching(siadCall.hosts, siadCall.prefix)) = 2
    /\ siadCall.res.err = "ambiguous pubkey"


(***************************************************************************)
(* SHARDClient: one GET request and what the two resolver methods make of   *)
(* the response.                                                            *)
(***************************************************************************)
StatusNoContent == 204
StatusGone == 410

\* the status codes a server answers with
Statuses == {200, StatusNoContent, 404, StatusGone, 500}

Text(t) == [kind |-> "text", text |-> t, key |-> "", addr |-> "", signedBy |-> ""]

\* an encoded HostAnnouncement with its signature
Announcement(key, addr, signedBy) ==
    [kind |-> "announcement", text |-> "<announcement>", key |-> key, addr |-> addr,
     signedBy |-> signedBy]

ShardKeys == {"k1", "k2"}

Bodies ==
    {Text(""), Text("ambiguous pubkey"), Text("not found")}
        \cup {Announcement(k, "addr", by) : k \in ShardKeys, by \in ShardKeys}

\* the responses http.Get delivers: a 204 has no body and ContentLength 0;
\* otherwise ContentLength is the body's length, or -1 when it is not announced
ShardResponses ==
    {[status |-> st, body |-> b, empty |-> e] :
        st \in Statuses, b \in Bodies, e \in BOOLEAN} \ 
    {r \in [status : Statuses, body : Bodies, empty : BOOLEAN] :
        \/ r.status = StatusNoContent /\ (r.body /= Text("") \/ ~r.empty)
        \/ r.empty /\ r.body /= Text("")}

\* encoding.NewDecoder(resp.Body).DecodeAll(&ha, &sig)
DecodeAll(body) == IF body.kind = "announcement" THEN "nil" ELSE "decode failed"

\* SHARDClient.req: got is whether http.Get returned a response; fn is the
\* error the caller's function returns for that response
req(got, resp, fn) ==
    IF ~got THEN "connection failed"
    ELSE IF ~(200 <= resp.status /\ resp.status <= 299) THEN resp.body.text
    ELSE fn

\* the function ResolveHostKey passes to req
ResolveFn(resp) ==
    IF resp.status = StatusNoContent THEN "ErrNoHostAnnouncement"
    ELSE IF resp.status = StatusGone THEN "ambiguous pubkey"
    ELSE DecodeAll(resp.body)

\* the function LookupHost passes to req: resp.ContentLength == 0
LookupFn(resp) ==
    IF resp.empty THEN "ErrNoHostAnnouncement" ELSE DecodeAll(resp.body)

ShardResult(val, err) == [val |-> val, err |-> err]

\* SHARDClient.ResolveHostKey(pubkey)
SHARDResolveHostKey(pubkey, got, resp) ==
    LET err == req(got, resp, ResolveFn(resp)) IN
    IF err /= "nil" THEN ShardResult("", err)
    ELSE IF resp.body.signedBy /= pubkey THEN ShardResult("", "invalid signature")
    ELSE ShardResult(resp.body.addr, "nil")

\* SHARDClient.LookupHost(prefix)
SHARDLookupHost(prefix, got, resp) ==
    LET err == req(got, resp, LookupFn(resp)) IN
    IF err /= "nil" THEN ShardResult("", err)
    ELSE ShardResult(resp.body.key, "nil")

NoShardCall == [method |-> "none", arg |-> "", got |-> FALSE,
                resp |-> [status |-> 200, body |-> Text(""), empty |-> TRUE],
                res |-> ShardResult("", "nil")]

ShardResolveHostKey ==
    /\ \E pubkey \in ShardKeys, got \in BOOLEAN, resp \in ShardResponses :
          shardCall' = [method |-> "ResolveHostKey", arg |-> pubkey, got |-> got,
                        resp |-> resp, res |-> SHARDResolveHostKey(pubkey, got, resp)]
    /\ UNCHANGED <<siadCall, walrusCall>>
    /\ UNCHANGED <<sessionVars, sbVars, startVars, hsVars, upVars, closeVars, marshalCall>>

ShardLookupHost ==
    /\ \E prefix \in ShardKeys, got \in BOOLEAN, resp \in ShardResponses :
          shardCall' = [method |-> "LookupHost", arg |-> prefix, got |-> got,
                        resp |-> resp, res |-> SHARDLookupHost(prefix, got, resp)]
    /\ UNCHANGED <<siadCall, walrusCall>>
    /\ UNCHANGED <<sessionVars, sbVars, startVars, hsVars, upVars, closeVars, marshalCall>>

Answered == shardCall.method /= "none" /\ shardCall.got

\* C22 as stated: split-resolver status mapping.  ResolveHostKey and
\* LookupHost report ErrNoHostAnnouncement when the server answers 204 and the
\* ambiguous-pubkey error when it answers 410; any other non-2xx status
\* yields an error and no key or address.
C22_StatusMapping ==
    Answered =>
        /\ shardCall.resp.status = StatusNoContent =>
              shardCall.res = ShardResult("", "ErrNoHostAnnouncement")
        /\ shardCall.resp.status = StatusGone =>
              shardCall.res = ShardResult("", "ambiguous pubkey")
        /\ ~(200 <= shardCall.resp.status /\ shardCall.resp.status <= 299) =>
              /\ shardCall.res.err /= "nil"
              /\ shardCall.res.val = ""

NextShard ==
    \/ ShardResolveHostKey
    \/ ShardLookupHost

(***************************************************************************)
(* WalrusClient.SignTransaction.  An input or revision is its ParentID and  *)
(* the address of its unlock conditions; a signature entry is its ParentID  *)
(* and the address whose key signed it ("" while unsigned).                 *)
(***************************************************************************)
Spend(id, addr) == [ParentID |-> id, addr |-> addr]

SigEntry(id, signedWith) == [ParentID |-> id, Signature |-> signedWith]

\* the addresses the wallet's seed owns
Owned == {"mine"}

\* c.walrus.AddressInfo(addr); reachable is whether the wallet server answers
AddressInfo(addr, reachable) ==
    IF ~reachable THEN "wallet unreachable"
    ELSE IF addr \in Owned THEN "nil"
    ELSE "address not found"

\* wallet.AppendTransactionSignature(txn, wallet.StandardTransactionSignature(id), sk)
AppendTransactionSignature(txn, id, addr) ==
    [txn EXCEPT !.TransactionSignatures = Append(@, SigEntry(id, addr))]

\* lazy mode: the loop over txn.SiacoinInputs from input i on
RECURSIVE SignLazy(_, _, _)
SignLazy(txn, i, reachable) ==
    IF i > Len(txn.SiacoinInputs) THEN [txn |-> txn, err |-> "nil"]
    ELSE LET input == txn.SiacoinInputs[i] IN
         IF AddressInfo(input.addr, reachable) /= "nil"
         THEN SignLazy(txn, i + 1, reachable)
         ELSE SignLazy(AppendTransactionSignature(txn, input.ParentID, input.addr),
                       i + 1, reachable)

\* sigAddr: siacoin inputs, then siafund inputs, then revisions
sigAddr(txn, id) ==
    LET all == txn.SiacoinInputs \o txn.SiafundInputs \o txn.FileContractRevisions
        at == {i \in 1..Len(all) : all[i].ParentID = id}
    IN IF at = {} THEN [addr |-> "", ok |-> FALSE]
       ELSE [addr |-> all[CHOOSE i \in at : \A j \in at : i <= j].addr, ok |-> TRUE]

\* sign(i)
sign(txn, i, reachable) ==
    LET a == sigAddr(txn, txn.TransactionSignatures[i].ParentID) IN
    IF ~a.ok THEN [txn |-> txn, err |-> "invalid id"]
    ELSE IF AddressInfo(a.addr, reachable) /= "nil"
         THEN [txn |-> txn, err |-> AddressInfo(a.addr, reachable)]
         ELSE [txn |-> [txn EXCEPT !.TransactionSignatures[i].Signature = a.addr],
               err |-> "nil"]

\* explicit mode: the loop over toSign from target k on
RECURSIVE SignExplicit(_, _, _, _)
SignExplicit(txn, toSign, k, reachable) ==
    IF k > Len(toSign) THEN [txn |-> txn, err |-> "nil"]
    ELSE LET at == {i \in 1..Len(txn.TransactionSignatures) :
                        txn.TransactionSignatures[i].ParentID = toSign[k]}
         IN IF at = {} THEN [txn |-> txn, err |-> "sighash not found in transaction"]
            ELSE LET signed == sign(txn, CHOOSE i \in at : \A j \in at : i <= j,
                                    reachable)
                 IN IF signed.err /= "nil" THEN signed
                    ELSE SignExplicit(signed.txn, toSign, k + 1, reachable)

\* WalrusClient.SignTransaction(txn, toSign)
SignTransaction(txn, toSign, reachable) ==
    IF Len(toSign) = 0 THEN SignLazy(txn, 1, reachable)
    ELSE SignExplicit(txn, toSign, 1, reachable)

\* the transactions a caller passes
Transactions ==
    [SiacoinInputs :
        {<<>>, <<Spend("c1", "mine")>>, <<Spend("c2", "theirs")>>,
         <<Spend("c1", "mine"), Spend("c2", "theirs")>>,
         <<Spend("c2", "theirs"), Spend("c1", "mine")>>},
     SiafundInputs : {<<>>, <<Spend("f1", "mine")>>},
     FileContractRevisions : {<<>>, <<Spend("r1", "theirs")>>},
     TransactionSignatures :
        {<<>>, <<SigEntry("c1", "")>>, <<SigEntry("c2", "")>>, <<SigEntry("x", "")>>,
         <<SigEntry("c1", ""), SigEntry("f1", "")>>,
         <<SigEntry("r1", ""), SigEntry("c1", "")>>}]

ToSignLists ==
    {<<>>, <<"c1">>, <<"c2">>, <<"x">>, <<"c1", "f1">>, <<"c1", "r1">>, <<"r1", "c1">>}

NoTransaction ==
    [SiacoinInputs |-> <<>>, SiafundInputs |-> <<>>, FileContractRevisions |-> <<>>,
     TransactionSignatures |-> <<>>]

NoWalrusCall == [called |-> FALSE, txn |-> NoTransaction, toSign |-> <<>>,
                 reachable |-> FALSE, out |-> NoTransaction, err |-> "nil"]

\* one call on each transaction
WalrusSignTransaction ==
    /\ ~walrusCall.called
    /\ \E txn \in Transactions, toSign \in ToSignLists, reachable \in BOOLEAN :
          LET r == SignTransaction(txn, toSign, reachable) IN
          walrusCall' = [called |-> TRUE, txn |-> txn, toSign |-> toSign,
                         reachable |-> reachable, out |-> r.txn, err |-> r.err]
    /\ UNCHANGED <<siadCall, shardCall>>
    /\ UNCHANGED <<sessionVars, sbVars, startVars, hsVars, upVars, closeVars, marshalCall>>

\* the signature entries the call appended to the transaction
Appended ==
    SubSeq(walrusCall.out.TransactionSignatures,
           Len(walrusCall.txn.TransactionSignatures) + 1,
           Len(walrusCall.out.TransactionSignatures))

\* a requested target that cannot be signed
BadTarget(id) ==
    \/ \A i \in 1..Len(walrusCall.txn.TransactionSignatures) :
          walrusCall.txn.TransactionSignatures[i].ParentID /= id
    \/ ~sigAddr(walrusCall.txn, id).ok
    \/ sigAddr(walrusCall.txn, id).addr \notin Owned

\* C23 as stated: signing modes.  With empty toSign, SignTransaction appends
\* one standard signature for every siacoin input whose address the wallet
\* owns, none for an input it does not own, and returns success; with
\* non-empty toSign it fails when a requested target has no matching
\* signature entry, no matching input or revision, or an address unknown to
\* the wallet.
C23_SigningModes ==
    walrusCall.called =>
        /\ Len(walrusCall.toSign) = 0 =>
              /\ walrusCall.err = "nil"
              /\ \A i \in 1..Len(walrusCall.txn.SiacoinInputs) :
                    LET input == walrusCall.txn.SiacoinInputs[i]
                        sigs == {j \in 1..Len(Appended) :
                                    Appended[j].ParentID = input.ParentID}
                    IN IF input.addr \in Owned
                       THEN /\ Cardinality(sigs) = 1
                            /\ \A j \in sigs : Appended[j].Signature = input.addr
                       ELSE sigs = {}
        /\ Len(walrusCall.toSign) > 0 =>
              ((\E k \in 1..Len(walrusCall.toSign) : BadTarget(walrusCall.toSign[k]))
                  => walrusCall.err /= "nil")


(***************************************************************************)
(* actionSet: the encoding of a set of revision actions.  A uint64 is kept  *)
(* as its four 16-bit limbs, least significant first; bytes are 0..255.     *)
(***************************************************************************)
\* PutUint64 that stores the most significant byte first
PutUint64BigEndian(v) ==
    <<v[4] \div 256, v[4] % 256, v[3] \div 256, v[3] % 256,
      v[2] \div 256, v[2] % 256, v[1] \div 256, v[1] % 256>>

\* binary.LittleEndian.PutUint64(buf, v): the eight bytes left in buf
PutUint64(v) ==
    <<v[1] % 256, v[1] \div 256, v[2] % 256, v[2] \div 256,
      v[3] % 256, v[3] \div 256, v[4] % 256, v[4] \div 256>>

\* the action sets a caller marshals: types "Modify" and "Insert"
ActionSets ==
    LET Specifier(name) ==
            [i \in 1..SpecifierLen |-> IF i <= Len(name) THEN name[i] ELSE 0]
        actions ==
            [Type : {Specifier(<<77, 111, 100, 105, 102, 121>>),
                     Specifier(<<73, 110, 115, 101, 114, 116>>)},
             SectorIndex : {<<258, 0, 0, 0>>, <<0, 0, 0, 32768>>},
             Offset : {<<0, 0, 0, 0>>, <<513, 1, 0, 0>>},
             Data : {<<>>, <<1, 2>>}]
    IN UNION {[1..n -> actions] : n \in 0..MaxActions}

\* actionSet.MarshalSia(w): [out, err], out the bytes w took.  The failAt-th
\* Write of w fails and takes nothing (failAt = 0: every Write succeeds);
\* only the error of a Write of action.Data is looked at.
MarshalSia(set, failAt) ==
    LET WriterWrite(w, bytes) ==
            IF w.n + 1 = failAt
            THEN [out |-> w.out, n |-> w.n + 1, err |-> "write failed"]
            ELSE [out |-> w.out \o bytes, n |-> w.n + 1, err |-> "nil"]
        RECURSIVE Loop(_, _)
        Loop(i, w) ==
            IF i > Len(set) THEN [out |-> w.out, err |-> "nil"]
            ELSE LET action == set[i]
                     w1 == WriterWrite(w, action.Type)
                     w2 == WriterWrite(w1, PutUint64(action.SectorIndex))
                     w3 == WriterWrite(w2, PutUint64(action.Offset))
                     w4 == WriterWrite(w3, PutUint64(<<Len(action.Data), 0, 0, 0>>))
                     w5 == WriterWrite(w4, action.Data)
                 IN IF w5.err /= "nil" THEN [out |-> w5.out, err |-> w5.err]
                    ELSE Loop(i + 1, w5)
    IN Loop(1, WriterWrite([out |-> <<>>, n |-> 0, err |-> "nil"],
                     PutUint64(<<Len(set), 0, 0, 0>>)))

\* actionSet.MarshalSiaSize()
MarshalSiaSize(set) ==
    LET RECURSIVE Loop(_, _)
        Loop(i, size) ==
            IF i > Len(set) THEN size
            ELSE Loop(i + 1, size + SpecifierLen + 8 + 8 + 8 + Len(set[i].Data))
    IN Loop(1, 8)

\* one MarshalSia call on each action set
MarshalActionSet ==
    /\ ~marshalCall.called
    /\ \E set \in ActionSets :
          \E failAt \in 0..(1 + 5 * Len(set)) :
              marshalCall' = [called |-> TRUE, set |-> set, failAt |-> failAt,
                              res |-> MarshalSia(set, failAt),
                              size |-> MarshalSiaSize(set)]
    /\ UNCHANGED <<sessionVars, sbVars, startVars, hsVars, upVars, closeVars, clientVars>>

\* binary.LittleEndian.Uint64 of the eight bytes from position p + 1 on
Uint64At(out, p) ==
    <<out[p + 1] + 256 * out[p + 2], out[p + 3] + 256 * out[p + 4],
      out[p + 5] + 256 * out[p + 6], out[p + 7] + 256 * out[p + 8]>>

\* the number of bytes the count and the first k actions take
RECURSIVE EncodedLen(_, _)
EncodedLen(set, k) ==
    IF k = 0 THEN 8 ELSE EncodedLen(set, k - 1) + 16 + 24 + Len(set[k].Data)

\* C31: ActionSet encoding.  Into a writer that takes every write, MarshalSia
\* emits the count as 8 little-endian bytes followed, for each action in
\* order, by the 16-byte type, the 8-byte sector index, the 8-byte offset,
\* the 8-byte data length and the data; the number of bytes emitted is
\* MarshalSiaSize() = 8 + the sum over the actions of 16 + 24 + len(data).
C31_Encoding ==
    (marshalCall.called /\ marshalCall.failAt = 0) =>
        LET set == marshalCall.set
            out == marshalCall.res.out
        IN /\ marshalCall.res.err = "nil"
           /\ Len(out) = marshalCall.size
           /\ marshalCall.size = EncodedLen(set, Len(set))
           /\ \A k \in 1..Len(out) : out[k] \in 0..255
           /\ Uint64At(out, 0) = <<Len(set), 0, 0, 0>>
           /\ \A i \in 1..Len(set) :
                 LET p == EncodedLen(set, i - 1) IN
                 /\ SubSeq(out, p + 1, p + 16) = set[i].Type
                 /\ Uint64At(out, p + 16) = set[i].SectorIndex
                 /\ Uint64At(out, p + 24) = set[i].Offset
                 /\ Uint64At(out, p + 32) = <<Len(set[i].Data), 0, 0, 0>>
                 /\ SubSeq(out, p + 41, p + 40 + Len(set[i].Data)) = set[i].Data

C31_Witness ==
    /\ marshalCall.called
    /\ marshalCall.failAt = 0
    /\ Len(marshalCall.set) = 2
    /\ marshalCall.set[1].Data = <<1, 2>>
    /\ marshalCall.set[1].SectorIndex = <<258, 0, 0, 0>>
    /\ marshalCall.set[2].Data = <<>>
    /\ marshalCall.set[2].Offset = <<513, 1, 0, 0>>
    /\ Len(marshalCall.res.out) = 90
    /\ SubSeq(marshalCall.res.out, 25, 32) = <<2, 1, 0, 0, 0, 0, 0, 0>>

InitRest ==
    /\ InitUploader
    /\ InitCloseIdle
    /\ siadCall = NoSiadCall
    /\ shardCall = NoShardCall
    /\ walrusCall = NoWalrusCall
    /\ marshalCall = [called |-> FALSE, set |-> <<>>, failAt |-> 0,
                      res |-> [out |-> <<>>, err |-> "nil"], size |-> 0]

Init == InitSession /\ InitBuilder /\ InitStartIdle /\ InitHSIdle /\ InitRest

InitSB == InitSessionIdle /\ InitBuilder /\ InitStartIdle /\ InitHSIdle /\ InitRest

NextSB ==
    \/ Reset
    \/ SBAppend
    \/ Finish

SpecSB == InitSB /\ [][NextSB]_vars

InitStartSpec == InitSessionIdle /\ InitBuilder /\ InitStart /\ InitHSIdle /\ InitRest

SpecStart == InitStartSpec /\ [][NextStart]_vars

InitHSSpec == InitSessionIdle /\ InitBuilder /\ InitStartIdle /\ InitHS /\ InitRest

SpecHS == InitHSSpec /\ [][NextHS]_vars

SpecUp == InitSB /\ [][NextUp]_vars

SpecMem == InitSB /\ [][NextMem]_vars

SpecClose == InitSB /\ [][NextClose]_vars

SpecLookup == InitSB /\ [][SiadLookupHost]_vars

SpecShard == InitSB /\ [][NextShard]_vars

SpecSign == InitSB /\ [][WalrusSignTransaction]_vars

SpecCodec == InitSB /\ [][MarshalActionSet]_vars

Next ==
    \/ Download
    \/ Upload
    \/ SignTxn
    \/ SendRevision
    \/ ReadAcceptance
    \/ SendSignature
    \/ ReadResponse
    \/ ReadHostSignature
    \/ Validate
    \/ FinishIteration

Spec == Init /\ [][Next]_vars
====
